---- MODULE Spec2Model ----
(***************************************************************************)
(* Client-side data synchronisation of the Dairy Sight dashboard: the      *)
(* foreground fetches, the silent polls, the interval timers and the       *)
(* notification timeouts of the views, on one event loop.                  *)
(*                                                                         *)
(* One component instance is observed per behaviour (variable view).  An   *)
(* async function is two steps: the synchronous part up to `await fetch`   *)
(* (the request joins inflight) and the continuation that runs when the    *)
(* response has been delivered and its body read (the request leaves       *)
(* inflight).  Requests are served by the backend in issue order and       *)
(* delivered in any order.  A React state setter is an assignment to the   *)
(* component's state record; the setters a step calls are listed in        *)
(* last.calls, in call order.                                              *)
(***************************************************************************)
EXTENDS Integers, Sequences, FiniteSets, TLC

\* ------------------------------------------------------------------ bounds
MaxInFlight == 2        \* requests in flight at once
MaxBackendChanges == 2  \* times the backend changes a resource
MaxPropChanges == 1     \* times a parent passes a new prop
MaxTimeouts == 2        \* pending setTimeout callbacks of showNotification
MaxWithdrawals == 2     \* withdrawals made on the Account page
MaxOverflow == 20       \* litres a reported capacity lies below 0 or above 100
MaxDevices == 3         \* devices in a list whose derived stats are rendered
MaxAdds == 2            \* devices added to the local list of the ATM Devices page

\* ------------------------------------------------------------ JS values
\* null / undefined of an object-typed value
NULL == [null |-> TRUE]
\* null of a `string | null` value
NullString == "<null>"
\* `undefined` of the optional numeric prop vendorUpdatedTrigger
Undefined == -1

DashboardViews == {"Dashboard.vendor", "Dashboard.devices", "Dashboard.transactions"}
AccountViews == {"Account.vendor", "Account.withdraw"}
AtmViews == {"AtmDevices", "AtmDevices.add"}
Views == {"AtmDevices", "DeviceStatusList", "DeviceDetailModal",
          "TamperDetection", "Cash", "Sidebar", "Price", "Home", "AtmDevices.local",
          "DeviceStatusList.pair"}
           \cup DashboardViews \cup AccountViews \cup AtmViews

\* Outcomes of `await fetch(url)` followed by `await res.json()`:
\*   ok      2xx status, body parsed
\*   http    non-2xx status, body { error }
\*   reject  fetch rejects (network error)
\*   badjson res.json() throws
Outcomes == {"ok", "http", "reject", "badjson"}
ErrorBody == [error |-> "backend error"]

\* ------------------------------------------------------------- payloads
D1a == [id |-> "D1", status |-> "online", isTampered |-> FALSE, capacity |-> 80]
D1b == [id |-> "D1", status |-> "offline", isTampered |-> FALSE, capacity |-> 50]
D2a == [id |-> "D2", status |-> "offline", isTampered |-> TRUE, capacity |-> 10]
DevicePayloads == {<<D1a, D2a>>, <<D1b, D2a>>, <<>>}
\* (text that a form can edit is a sequence of one-character strings)
VendorPayloads == {[id |-> "V1", name |-> <<"A">>, shopName |-> <<"D">>],
                   [id |-> "V1", name |-> <<"A">>, shopName |-> <<"M">>]}
TransactionPayloads == {<<>>, <<[id |-> "T1", amount |-> 120]>>}
CashPayloads == {<<>>, <<[id |-> "C1", amount |-> 50]>>}
PricingPayloads == {[pricePerLitre |-> 60], [pricePerLitre |-> 65]}

PayloadsOf(res) ==
  CASE res = "devices" -> DevicePayloads
    [] res = "vendor" -> VendorPayloads
    [] res = "transactions" -> TransactionPayloads
    [] res = "cash" -> CashPayloads
    [] res = "pricing" -> PricingPayloads

\* the resources a view reads from the backend
ResourcesOf(v) ==
  CASE v \in {"AtmDevices", "DeviceStatusList", "DeviceDetailModal", "TamperDetection"} ->
         {"devices"}
    [] v = "AtmDevices.add" -> {}
    [] v = "DeviceStatusList.pair" -> {"devices"}
    [] v = "Cash" -> {"cash"}
    [] v \in {"Dashboard.vendor", "Sidebar", "Account.vendor"} -> {"vendor"}
    [] v \in {"Account.withdraw", "Home", "AtmDevices.local"} -> {}
    [] v = "Dashboard.devices" -> {"devices"}
    [] v = "Dashboard.transactions" -> {"transactions"}
    [] v = "Price" -> {"pricing"}

\* ------------------------------------------------------- JSON.stringify
BoolText(b) == IF b THEN "true" ELSE "false"

\* JSON.stringify of one Device object (keys in the order the backend sends)
StringifyDevice(d) ==
  "{\"id\":\"" \o d.id \o "\",\"status\":\"" \o d.status
    \o "\",\"isTampered\":" \o BoolText(d.isTampered)
    \o ",\"capacity\":" \o ToString(d.capacity) \o "}"

RECURSIVE JoinDevices(_)
JoinDevices(s) ==
  IF s = <<>> THEN ""
  ELSE IF Len(s) = 1 THEN StringifyDevice(s[1])
  ELSE StringifyDevice(s[1]) \o "," \o JoinDevices(Tail(s))

\* JSON.stringify of a Device[]
StringifyDevices(s) == "[" \o JoinDevices(s) \o "]"

\* ------------------------------------------------------------------ text
\* Text that a form can edit is a sequence of one-character strings.
\* t without its leading white space
RECURSIVE SkipSpaces(_)
SkipSpaces(t) == IF t # <<>> /\ t[1] = " " THEN SkipSpaces(Tail(t)) ELSE t

\* t without its trailing white space
RECURSIVE TrimEnd(_)
TrimEnd(t) == IF t # <<>> /\ t[Len(t)] = " " THEN TrimEnd(SubSeq(t, 1, Len(t) - 1)) ELSE t

\* String.prototype.trim
Trim(t) == TrimEnd(SkipSpaces(t))

\* ---------------------------------------------------------------- state
VARIABLES
  view,             \* the component under observation
  phase,            \* "constructed" (useState ran), "mounted" (effects ran), "unmounted"
  props,            \* the props the parent passes
  state,            \* the useState values of the component
  previousDataRef,  \* previousDataRef.current
  interval,         \* the handle held by the polling effect's closure (0: none)
  intervals,        \* handles of the interval timers that are active
  inflight,         \* requests issued and not yet settled, in issue order
  backend,          \* the backend's value of each resource
  changes,          \* number of backend changes so far
  propChanges,      \* number of prop changes so far
  timeouts,         \* pending setTimeout(() => setNotification(null), 3000) callbacks
  last              \* the step taken last

vars == <<view, phase, props, state, previousDataRef, interval, intervals,
          inflight, backend, changes, propChanges, timeouts, last>>

\* ---------------------------------------------------------- construction
InitBackend ==
  [devices |-> <<D1a, D2a>>,
   vendor |-> [id |-> "V1", name |-> <<"A">>, shopName |-> <<"D">>],
   transactions |-> <<>>,
   cash |-> <<>>,
   pricing |-> [pricePerLitre |-> 60]]

\* the balances of appData.account when the Account page opens
Balances == {70, 1500}

\* the devices that occur in some payload (what a parent can pass as `device`)
KnownDevices == {D1a, D1b, D2a}

\* appData.devices as Home passes it to the local version of AtmDevices
\* (ids and names as text)
LocalDevices ==
  <<[id |-> <<"D", "1">>, name |-> <<"N">>, status |-> "online"],
    [id |-> <<"D", "2">>, name |-> <<"N">>, status |-> "offline"]>>

InitProps(v) ==
  CASE v = "DeviceStatusList" -> {[devices |-> p] : p \in DevicePayloads}
    [] v = "DeviceDetailModal" -> {[device |-> d] : d \in KnownDevices}
    [] v \in {"Dashboard.vendor", "Sidebar"} ->
         {[vendorUpdatedTrigger |-> t] : t \in {Undefined, 0}}
    [] v = "Account.withdraw" ->
         {[account |-> [balance |-> b, withdrawals |-> <<>>]] : b \in Balances}
    [] v = "AtmDevices.local" -> {[devices |-> LocalDevices]}
    [] v = "DeviceStatusList.pair" -> {[devices |-> <<D1a, D2a>>]}
    [] OTHER -> {[none |-> TRUE]}

\* the useState initial values
InitState(v, p) ==
  CASE v \in AtmViews ->
         [deviceList |-> <<>>, loading |-> FALSE, notification |-> NULL,
          showAddModal |-> FALSE,
          newDevice |-> [id |-> <<>>, name |-> <<>>, status |-> "online"]]
    [] v = "DeviceStatusList" -> [liveDevices |-> p.devices]
    [] v = "DeviceDetailModal" -> [liveDevice |-> p.device]
    [] v = "DeviceStatusList.pair" ->
         [k \in {"a", "b"} |->
            [liveDevices |-> p.devices, previousDataRef |-> "", mounted |-> FALSE]]
    [] v = "TamperDetection" ->
         [deviceList |-> <<>>, loading |-> FALSE, notification |-> NULL,
          lastRefreshed |-> NullString]
    [] v = "Cash" ->
         [cashPayments |-> <<>>, loading |-> TRUE, error |-> NullString]
    [] v = "Dashboard.devices" ->
         [devices |-> <<>>, loadingDevices |-> TRUE, deviceError |-> "",
          showAlerts |-> FALSE, selectedDevice |-> NULL]
    [] v = "Dashboard.transactions" ->
         [transactions |-> <<>>, loadingTransactions |-> TRUE, transactionError |-> ""]
    [] v \in {"Dashboard.vendor", "Sidebar"} ->
         [vendor |-> NULL, loadingVendor |-> TRUE, vendorError |-> ""]
    [] v = "Price" ->
         [pricing |-> [pricePerLitre |-> 0], newPrice |-> <<>>, isEditing |-> FALSE,
          loading |-> FALSE, feedback |-> NULL]
    [] v = "Account.vendor" ->
         [vendor |-> NULL, loadingVendor |-> TRUE, editMode |-> FALSE,
          vendorName |-> <<>>, shopName |-> <<>>, feedback |-> NULL]
    [] v = "Account.withdraw" ->
         [isWithdrawing |-> FALSE, withdrawAmount |-> <<>>, error |-> ""]
    [] v = "AtmDevices.local" ->
         [deviceList |-> p.devices, showAddModal |-> FALSE,
          newDevice |-> [id |-> <<>>, name |-> <<>>, status |-> "online"]]
    [] v = "Home" ->
         [currentPage |-> "dashboard", appData |-> NULL, loading |-> TRUE,
          sidebarOpen |-> FALSE]

NoStep ==
  [fn |-> "", step |-> "init", by |-> "", outcome |-> "", body |-> NULL, calls |-> <<>>,
   overtaken |-> FALSE, stale |-> FALSE, failedPoll |-> FALSE]

Init ==
  /\ view \in Views
  /\ phase = "constructed"
  /\ props \in InitProps(view)
  /\ state = InitState(view, props)
  /\ previousDataRef = ""
  /\ interval = 0
  /\ intervals = {}
  /\ inflight = <<>>
  /\ backend = InitBackend
  /\ changes = 0
  /\ propChanges = 0
  /\ timeouts = 0
  /\ last = NoStep

\* ------------------------------------------------------ request plumbing
\* number of requests of async function fn in flight
InFlightOf(fn) == Cardinality({i \in 1..Len(inflight) : inflight[i].fn = fn})

\* one more request can be issued
CanIssue(fn) == Len(inflight) < MaxInFlight

\* a notification can still be scheduled for every request of fn in flight
CanNotify(fn) == timeouts + InFlightOf(fn) < MaxTimeouts

\* `fetch(url)`: the request is served with the backend's current value
Request(fn, by, url, body) ==
  [fn |-> fn, by |-> by, url |-> url, body |-> body, overtaken |-> FALSE, stale |-> FALSE]

\* q with request r added (issue order)
Enqueue(q, r) == Append(q, r)

RECURSIVE EnqueueAll(_, _)
EnqueueAll(q, rs) ==
  IF rs = <<>> THEN q ELSE EnqueueAll(Enqueue(q, rs[1]), Tail(rs))

\* the sequence s without its i-th element
RemoveAt(s, i) == SubSeq(s, 1, i - 1) \o SubSeq(s, i + 1, Len(s))

\* inflight after request i has settled: when its response was usable, the
\* requests for the same URL issued before it are marked overtaken, and
\* stale when the response they are still waiting for differs from it
Settled(i, o) ==
  LET marked == [j \in 1..Len(inflight) |->
                   IF j < i /\ inflight[j].url = inflight[i].url /\ o = "ok"
                   THEN [inflight[j] EXCEPT
                           !.overtaken = TRUE,
                           !.stale = @ \/ inflight[j].body # inflight[i].body]
                   ELSE inflight[j]]
  IN RemoveAt(marked, i)

\* the functions the interval timers of the silent-polling views call
SilentFns == {"fetchDevicesSilently", "fetchDeviceSilently"}

\* a silent poll has failed and none has succeeded since, the last step included
FailedPoll ==
  IF last.step = "settle" /\ last.fn \in SilentFns
  THEN last.outcome # "ok"
  ELSE last.failedPoll

\* the record of a step that issued a request
Issued(fn, by, calls) ==
  [fn |-> fn, step |-> "issue", by |-> by, outcome |-> "", body |-> NULL, calls |-> calls,
   overtaken |-> FALSE, stale |-> FALSE, failedPoll |-> FailedPoll]

\* the record of the step in which request r settled with outcome o
SettledStep(r, o, calls) ==
  [fn |-> r.fn, step |-> "settle", by |-> r.by, outcome |-> o, body |-> r.body,
   calls |-> calls, overtaken |-> r.overtaken, stale |-> r.stale,
   failedPoll |-> FailedPoll]

\* the record of any other step
OtherStep(name) ==
  [fn |-> name, step |-> "event", by |-> "", outcome |-> "", body |-> NULL, calls |-> <<>>,
   overtaken |-> FALSE, stale |-> FALSE, failedPoll |-> FailedPoll]

\* `setInterval(f, ms)` returns a fresh handle
NewHandle == interval + 1

\* showNotification(type, message): setNotification + setTimeout
Notification(type, message) == [type |-> type, message |-> message]

\* the message of the error the catch block receives
ErrMessage(o, thrown) ==
  CASE o = "http" -> thrown
    [] o = "reject" -> "Failed to fetch"
    [] o = "badjson" -> "Unexpected token < in JSON at position 0"

\* `a || b` on strings
OrElse(a, b) == IF a # "" THEN a ELSE b

\* --------------------------------------------------------- environment
\* the backend changes one of the resources the view reads
BackendChange ==
  /\ changes < MaxBackendChanges
  /\ \E res \in ResourcesOf(view) : \E p \in PayloadsOf(res) :
       /\ p # backend[res]
       /\ backend' = [backend EXCEPT ![res] = p]
  /\ changes' = changes + 1
  /\ last' = OtherStep("backend")
  /\ UNCHANGED <<view, phase, props, state, previousDataRef, interval, intervals,
                 inflight, propChanges, timeouts>>

\* the pending callback of showNotification fires: setNotification(null)
NotificationTimeout ==
  /\ timeouts > 0
  /\ timeouts' = timeouts - 1
  /\ state' = [state EXCEPT !.notification = NULL]
  /\ last' = [OtherStep("notificationTimeout") EXCEPT !.calls = <<"setNotification">>]
  /\ UNCHANGED <<view, phase, props, previousDataRef, interval, intervals,
                 inflight, backend, changes, propChanges>>

\* ------------------------------------------------------------ AtmDevices
\* The "Add Device" form (showAddModal, newDevice, handleAddDevice) is
\* observed in the view "AtmDevices.add", the polling in the view
\* "AtmDevices": fetchDevicesSilently reads and writes neither the form nor
\* the notification, and the form is not touched by a timer tick.
\* While the form is observed the backend's device list is held fixed.
\* fetchDevices up to `await fetch`: setLoading(true)
AtmDevices_fetchDevices(by) ==
  /\ CanIssue("fetchDevices") /\ CanNotify("fetchDevices")
  /\ state' = [state EXCEPT !.loading = TRUE]
  /\ inflight' = Enqueue(inflight, Request("fetchDevices", by, "/api/devices", backend.devices))
  /\ last' = Issued("fetchDevices", by, <<"setLoading">>)

\* the two mount effects: fetchDevices() and setInterval(fetchDevicesSilently, 3000)
AtmDevices_mount ==
  /\ view \in AtmViews /\ phase = "constructed"
  /\ phase' = "mounted"
  /\ AtmDevices_fetchDevices("mount")
  /\ interval' = NewHandle
  /\ intervals' = intervals \cup {NewHandle}
  /\ UNCHANGED <<view, props, previousDataRef, backend, changes, propChanges, timeouts>>

\* fetchDevices after the response arrived
AtmDevices_fetchDevices_settle(i, o) ==
  /\ view \in AtmViews
  /\ i \in 1..Len(inflight) /\ inflight[i].fn = "fetchDevices"
  /\ LET r == inflight[i] IN
       IF o = "ok"
       THEN /\ state' = [state EXCEPT !.deviceList = r.body, !.loading = FALSE]
            /\ previousDataRef' = StringifyDevices(r.body)
            /\ timeouts' = timeouts
            /\ last' = SettledStep(r, o, <<"setDeviceList", "setLoading">>)
       ELSE /\ state' = [state EXCEPT
                           !.notification = Notification("error", "Failed to load devices from backend."),
                           !.loading = FALSE]
            /\ timeouts' = timeouts + 1
            /\ previousDataRef' = previousDataRef
            /\ last' = SettledStep(r, o, <<"setNotification", "setLoading">>)
  /\ inflight' = Settled(i, o)
  /\ UNCHANGED <<view, phase, props, interval, intervals, backend, changes, propChanges>>

\* the interval timer fires: fetchDevicesSilently up to `await fetch`
AtmDevices_fetchDevicesSilently ==
  /\ view = "AtmDevices"
  /\ intervals # {}
  /\ CanIssue("fetchDevicesSilently")
  /\ inflight' = Enqueue(inflight, Request("fetchDevicesSilently", "timer", "/api/devices", backend.devices))
  /\ last' = Issued("fetchDevicesSilently", "timer", <<>>)
  /\ UNCHANGED <<view, phase, props, state, previousDataRef, interval, intervals,
                 backend, changes, propChanges, timeouts>>

\* mutant: the comparison is dropped, every successful poll commits
SerializedDiffers_always(serialized, previous) == TRUE

\* mutant: the comparison is inverted into one that never holds
SerializedDiffers_never(serialized, previous) == serialized # serialized

\* `serialized !== previousDataRef.current`
SerializedDiffers(serialized, previous) == serialized # previous

\* a silent poll goes on to the comparison: fetch resolved, res.ok holds and
\* res.json() did not throw
SilentOk(o) == o = "ok"

\* mutant: the catch block and the `!res.ok` branch notify like fetchDevices
AtmDevices_fetchDevicesSilently_settle_loud(i, o) ==
  /\ view = "AtmDevices"
  /\ i \in 1..Len(inflight) /\ inflight[i].fn = "fetchDevicesSilently"
  /\ LET r == inflight[i]
         serialized == StringifyDevices(r.body)
     IN
       IF SilentOk(o)
       THEN /\ timeouts' = timeouts
            /\ IF SerializedDiffers(serialized, previousDataRef)
               THEN /\ previousDataRef' = serialized
                    /\ state' = [state EXCEPT !.deviceList = r.body]
                    /\ last' = SettledStep(r, o, <<"setDeviceList">>)
               ELSE /\ UNCHANGED <<previousDataRef, state>>
                    /\ last' = SettledStep(r, o, <<>>)
       ELSE /\ state' = [state EXCEPT
                           !.notification = Notification("error", "Failed to load devices from backend.")]
            /\ timeouts' = timeouts + 1
            /\ previousDataRef' = previousDataRef
            /\ last' = SettledStep(r, o, <<"setNotification">>)
  /\ inflight' = Settled(i, o)
  /\ UNCHANGED <<view, phase, props, interval, intervals, backend, changes, propChanges>>

\* fetchDevicesSilently after the response arrived
AtmDevices_fetchDevicesSilently_settle(i, o) ==
  /\ view = "AtmDevices"
  /\ i \in 1..Len(inflight) /\ inflight[i].fn = "fetchDevicesSilently"
  /\ LET r == inflight[i]
         serialized == StringifyDevices(r.body)
     IN
       IF SilentOk(o) /\ SerializedDiffers(serialized, previousDataRef)
       THEN /\ previousDataRef' = serialized
            /\ state' = [state EXCEPT !.deviceList = r.body]
            /\ last' = SettledStep(r, o, <<"setDeviceList">>)
       ELSE /\ UNCHANGED <<previousDataRef, state>>
            /\ last' = SettledStep(r, o, <<>>)
  /\ inflight' = Settled(i, o)
  /\ UNCHANGED <<view, phase, props, interval, intervals, backend, changes,
                 propChanges, timeouts>>

\* the "Add Device" button and the Cancel button of the form
AtmDevices_setShowAddModal(show) ==
  /\ view \in {"AtmDevices.add", "AtmDevices.local"} /\ phase = "mounted"
  /\ state.showAddModal # show
  /\ state' = [state EXCEPT !.showAddModal = show]
  /\ last' = [OtherStep("setShowAddModal") EXCEPT !.calls = <<"setShowAddModal">>]
  /\ UNCHANGED <<view, phase, props, previousDataRef, interval, intervals, inflight, backend,
                 changes, propChanges, timeouts>>

\* what the user types into the Device ID and the Device Name input
DeviceIdInputs == {<<" ">>, <<"D", "3">>}
DeviceNameInputs == {<<"N">>}

\* handleChange(field, value) from the inputs of the form
AtmDevices_handleChange(field, value) ==
  /\ view \in {"AtmDevices.add", "AtmDevices.local"} /\ phase = "mounted"
  /\ state.showAddModal
  /\ value # state.newDevice[field]
  /\ state' = [state EXCEPT !.newDevice[field] = value]
  /\ last' = [OtherStep("handleChange") EXCEPT !.calls = <<"setNewDevice">>]
  /\ UNCHANGED <<view, phase, props, previousDataRef, interval, intervals, inflight, backend,
                 changes, propChanges, timeouts>>

\* `!newDevice.id.trim() || !newDevice.name.trim()`
DeviceFieldsEmpty(newDevice) == Trim(newDevice.id) = <<>> \/ Trim(newDevice.name) = <<>>

\* the "Add" button: handleAddDevice up to `await fetch`, or up to the
\* return of the validation
AtmDevices_handleAddDevice ==
  /\ view = "AtmDevices.add" /\ phase = "mounted"
  /\ state.showAddModal
  /\ IF DeviceFieldsEmpty(state.newDevice)
     THEN /\ timeouts < MaxTimeouts
          /\ state' = [state EXCEPT
                         !.notification = Notification("error", "Please fill in all fields.")]
          /\ timeouts' = timeouts + 1
          /\ inflight' = inflight
          /\ last' = [OtherStep("handleAddDevice") EXCEPT !.calls = <<"setNotification">>]
     ELSE /\ CanIssue("handleAddDevice")
          /\ state' = state
          /\ timeouts' = timeouts
          /\ inflight' = Enqueue(inflight,
                                 Request("handleAddDevice", "click", "POST /api/devices",
                                         state.newDevice))
          /\ last' = Issued("handleAddDevice", "click", <<>>)
  /\ UNCHANGED <<view, phase, props, previousDataRef, interval, intervals, backend, changes,
                 propChanges>>

\* mutant: the `if (!res.ok)` return is missing
AddSucceeded_anyStatus(o) == o \in {"ok", "http"}

\* the body was parsed and `!res.ok` does not hold
AddSucceeded(o) == o = "ok"

\* handleAddDevice after the response arrived: on success the form is
\* cleared and closed and fetchDevices() is called; every outcome notifies
AtmDevices_handleAddDevice_settle(i, o) ==
  /\ view = "AtmDevices.add"
  /\ i \in 1..Len(inflight) /\ inflight[i].fn = "handleAddDevice"
  /\ timeouts < MaxTimeouts
  /\ timeouts' = timeouts + 1
  /\ LET r == inflight[i] IN
       CASE AddSucceeded(o) ->
              /\ state' = [state EXCEPT
                             !.newDevice = [id |-> <<>>, name |-> <<>>, status |-> "online"],
                             !.showAddModal = FALSE,
                             !.notification = Notification("success", "Device added successfully"),
                             !.loading = TRUE]
              /\ inflight' = Enqueue(Settled(i, o),
                                     Request("fetchDevices", "add", "/api/devices", backend.devices))
              /\ last' = SettledStep(r, o, <<"setNewDevice", "setShowAddModal", "setNotification",
                                              "setLoading">>)
         [] ~AddSucceeded(o) /\ o = "http" ->
              /\ state' = [state EXCEPT
                             !.notification = Notification("error",
                                                           OrElse(ErrorBody.error, "Failed to add device"))]
              /\ inflight' = Settled(i, o)
              /\ last' = SettledStep(r, o, <<"setNotification">>)
         [] OTHER ->
              /\ state' = [state EXCEPT
                             !.notification = Notification("error",
                                                           "Failed to add device. Check backend connection.")]
              /\ inflight' = Settled(i, o)
              /\ last' = SettledStep(r, o, <<"setNotification">>)
  /\ UNCHANGED <<view, phase, props, previousDataRef, interval, intervals, backend, changes,
                 propChanges>>

\* the cleanup of the polling effect: clearInterval(interval)
AtmDevices_unmount ==
  /\ view \in AtmViews /\ phase = "mounted"
  /\ phase' = "unmounted"
  /\ intervals' = intervals \ {interval}
  /\ last' = OtherStep("unmount")
  /\ UNCHANGED <<view, props, state, previousDataRef, interval, inflight, backend,
                 changes, propChanges, timeouts>>

AtmDevices ==
  \/ AtmDevices_mount
  \/ \E i \in 1..Len(inflight) : \E o \in Outcomes : AtmDevices_fetchDevices_settle(i, o)
  \/ AtmDevices_fetchDevicesSilently
  \/ \E i \in 1..Len(inflight) : \E o \in Outcomes : AtmDevices_fetchDevicesSilently_settle(i, o)
  \/ AtmDevices_unmount
  \/ (view \in AtmViews /\ NotificationTimeout)
  \/ \E show \in BOOLEAN : AtmDevices_setShowAddModal(show)
  \/ \E value \in DeviceIdInputs : (view = "AtmDevices.add" /\ AtmDevices_handleChange("id", value))
  \/ \E value \in DeviceNameInputs : AtmDevices_handleChange("name", value)
  \/ AtmDevices_handleAddDevice
  \/ \E i \in 1..Len(inflight) : \E o \in Outcomes : AtmDevices_handleAddDevice_settle(i, o)

\* ------------------------------------------- AtmDevices, local version
\* The version of the page that keeps the list in its own state (view
\* "AtmDevices.local"): no backend, no effect; the form and its inputs are
\* the ones above.

\* what the user types into the Device ID input: the id of a listed
\* device, a new id, and the new id followed by a space
LocalIdInputs == {<<"D", "1">>, <<"D", "3">>, <<"D", "3", " ">>}

\* the first render
AtmDevicesLocal_mount ==
  /\ view = "AtmDevices.local" /\ phase = "constructed"
  /\ phase' = "mounted"
  /\ last' = OtherStep("mount")
  /\ UNCHANGED <<view, props, state, previousDataRef, interval, intervals, inflight, backend,
                 changes, propChanges, timeouts>>

\* `deviceList.find((d) => d.id === newDevice.id.trim())`
DeviceExists(deviceList, newDevice) ==
  \E k \in 1..Len(deviceList) : deviceList[k].id = Trim(newDevice.id)

\* the "Add Device" button of the form: handleAddDevice
AtmDevicesLocal_handleAddDevice ==
  /\ view = "AtmDevices.local" /\ phase = "mounted"
  /\ state.showAddModal
  /\ CASE DeviceFieldsEmpty(state.newDevice) ->
            /\ state' = state
            /\ last' = [OtherStep("handleAddDevice") EXCEPT !.calls = <<"alert">>]
       [] ~DeviceFieldsEmpty(state.newDevice) /\ DeviceExists(state.deviceList, state.newDevice) ->
            /\ state' = state
            /\ last' = [OtherStep("handleAddDevice") EXCEPT !.calls = <<"alert">>]
       [] OTHER ->
            /\ Len(state.deviceList) < Len(props.devices) + MaxAdds
            /\ state' = [state EXCEPT
                           !.deviceList = Append(state.deviceList, state.newDevice),
                           !.newDevice = [id |-> <<>>, name |-> <<>>, status |-> "online"],
                           !.showAddModal = FALSE]
            /\ last' = [OtherStep("handleAddDevice") EXCEPT
                          !.calls = <<"setDeviceList", "setNewDevice", "setShowAddModal">>]
  /\ UNCHANGED <<view, phase, props, previousDataRef, interval, intervals, inflight, backend,
                 changes, propChanges, timeouts>>

AtmDevicesLocal ==
  \/ AtmDevicesLocal_mount
  \/ \E value \in LocalIdInputs :
        (view = "AtmDevices.local" /\ AtmDevices_handleChange("id", value))
  \/ AtmDevicesLocal_handleAddDevice

\* ------------------------------------------------------ DeviceStatusList
\* mutant: the effect returns no cleanup, the old timer stays active
DeviceStatusList_effect_leak(devices) ==
  /\ previousDataRef' = StringifyDevices(devices)
  /\ state' = [state EXCEPT !.liveDevices = devices]
  /\ interval' = NewHandle
  /\ intervals' = intervals \cup {NewHandle}

\* the polling effect: copy the prop in, then setInterval(fetchDevicesSilently, 3000)
DeviceStatusList_effect(devices) ==
  /\ previousDataRef' = StringifyDevices(devices)
  /\ state' = [state EXCEPT !.liveDevices = devices]
  /\ interval' = NewHandle
  /\ intervals' = (intervals \ {interval}) \cup {NewHandle}

DeviceStatusList_mount ==
  /\ view = "DeviceStatusList" /\ phase = "constructed"
  /\ phase' = "mounted"
  /\ DeviceStatusList_effect(props.devices)
  /\ last' = [OtherStep("mount") EXCEPT !.calls = <<"setLiveDevices">>]
  /\ UNCHANGED <<view, props, inflight, backend, changes, propChanges, timeouts>>

\* the parent passes a new `devices` array: the effect's cleanup runs
\* (clearInterval of the old handle), then the effect runs again
DeviceStatusList_propChange(devices) ==
  /\ view = "DeviceStatusList" /\ phase = "mounted"
  /\ propChanges < MaxPropChanges
  /\ propChanges' = propChanges + 1
  /\ props' = [props EXCEPT !.devices = devices]
  /\ DeviceStatusList_effect(devices)
  /\ last' = [OtherStep("propChange") EXCEPT !.calls = <<"setLiveDevices">>]
  /\ UNCHANGED <<view, phase, inflight, backend, changes, timeouts>>

DeviceStatusList_fetchDevicesSilently ==
  /\ view = "DeviceStatusList"
  /\ intervals # {}
  /\ CanIssue("fetchDevicesSilently")
  /\ inflight' = Enqueue(inflight, Request("fetchDevicesSilently", "timer", "/api/devices", backend.devices))
  /\ last' = Issued("fetchDevicesSilently", "timer", <<>>)
  /\ UNCHANGED <<view, phase, props, state, previousDataRef, interval, intervals,
                 backend, changes, propChanges, timeouts>>

DeviceStatusList_fetchDevicesSilently_settle(i, o) ==
  /\ view = "DeviceStatusList"
  /\ i \in 1..Len(inflight) /\ inflight[i].fn = "fetchDevicesSilently"
  /\ LET r == inflight[i]
         serialized == StringifyDevices(r.body)
     IN
       IF SilentOk(o) /\ SerializedDiffers(serialized, previousDataRef)
       THEN /\ previousDataRef' = serialized
            /\ state' = [state EXCEPT !.liveDevices = r.body]
            /\ last' = SettledStep(r, o, <<"setLiveDevices">>)
       ELSE /\ UNCHANGED <<previousDataRef, state>>
            /\ last' = SettledStep(r, o, <<>>)
  /\ inflight' = Settled(i, o)
  /\ UNCHANGED <<view, phase, props, interval, intervals, backend, changes,
                 propChanges, timeouts>>

DeviceStatusList_unmount ==
  /\ view = "DeviceStatusList" /\ phase = "mounted"
  /\ phase' = "unmounted"
  /\ intervals' = intervals \ {interval}
  /\ last' = OtherStep("unmount")
  /\ UNCHANGED <<view, props, state, previousDataRef, interval, inflight, backend,
                 changes, propChanges, timeouts>>

DeviceStatusList ==
  \/ DeviceStatusList_mount
  \/ \E d \in DevicePayloads : DeviceStatusList_propChange(d)
  \/ DeviceStatusList_fetchDevicesSilently
  \/ \E i \in 1..Len(inflight) : \E o \in Outcomes : DeviceStatusList_fetchDevicesSilently_settle(i, o)
  \/ DeviceStatusList_unmount

\* Two DeviceStatusList instances mounted at once (view
\* "DeviceStatusList.pair"): useState and useRef give each instance its own
\* liveDevices and its own previousDataRef, kept in state[k]; a request
\* carries the instance that issued it.
Instances == {"a", "b"}

\* the polling effect of instance k runs for the first time
DeviceStatusListPair_mount(k) ==
  /\ view = "DeviceStatusList.pair" /\ ~state[k].mounted
  /\ phase' = "mounted"
  /\ state' = [state EXCEPT ![k] = [liveDevices |-> props.devices,
                                    previousDataRef |-> StringifyDevices(props.devices),
                                    mounted |-> TRUE]]
  /\ interval' = NewHandle
  /\ intervals' = intervals \cup {NewHandle}
  /\ last' = [OtherStep("mount") EXCEPT !.by = k, !.calls = <<"setLiveDevices">>]
  /\ UNCHANGED <<view, props, previousDataRef, inflight, backend, changes, propChanges,
                 timeouts>>

\* the interval timer of instance k fires
DeviceStatusListPair_fetchDevicesSilently(k) ==
  /\ view = "DeviceStatusList.pair" /\ state[k].mounted
  /\ CanIssue("fetchDevicesSilently")
  /\ inflight' = Enqueue(inflight, Request("instance.fetchDevicesSilently", k, "/api/devices",
                                          backend.devices))
  /\ last' = Issued("instance.fetchDevicesSilently", k, <<>>)
  /\ UNCHANGED <<view, phase, props, state, previousDataRef, interval, intervals,
                 backend, changes, propChanges, timeouts>>

\* mutant: previousDataRef is one variable of the module, shared by the
\* instances
DeviceStatusListPair_commit_sharedRef(instances, k, data) ==
  [j \in Instances |->
     [instances[j] EXCEPT !.previousDataRef = StringifyDevices(data),
                          !.liveDevices = IF j = k THEN data ELSE @]]

\* `previousDataRef.current = serialized; setLiveDevices(data)` in instance k
DeviceStatusListPair_commit(instances, k, data) ==
  [instances EXCEPT ![k].previousDataRef = StringifyDevices(data), ![k].liveDevices = data]

\* fetchDevicesSilently of the issuing instance after the response arrived
DeviceStatusListPair_fetchDevicesSilently_settle(i, o) ==
  /\ view = "DeviceStatusList.pair"
  /\ i \in 1..Len(inflight)
  /\ LET r == inflight[i] IN
       IF SilentOk(o) /\ SerializedDiffers(StringifyDevices(r.body), state[r.by].previousDataRef)
       THEN /\ state' = DeviceStatusListPair_commit(state, r.by, r.body)
            /\ last' = SettledStep(r, o, <<"setLiveDevices">>)
       ELSE /\ state' = state
            /\ last' = SettledStep(r, o, <<>>)
  /\ inflight' = Settled(i, o)
  /\ UNCHANGED <<view, phase, props, previousDataRef, interval, intervals, backend, changes,
                 propChanges, timeouts>>

DeviceStatusListPair ==
  \/ \E k \in Instances : DeviceStatusListPair_mount(k)
  \/ \E k \in Instances : DeviceStatusListPair_fetchDevicesSilently(k)
  \/ \E i \in 1..Len(inflight) : \E o \in Outcomes :
        DeviceStatusListPair_fetchDevicesSilently_settle(i, o)

\* ----------------------------------------------------- DeviceDetailModal
\* GET /api/devices/{id}: the device with that id, NULL when there is none (404)
DeviceById(devices, id) ==
  IF \E k \in 1..Len(devices) : devices[k].id = id
  THEN devices[CHOOSE k \in 1..Len(devices) : devices[k].id = id]
  ELSE NULL

DeviceDetailModal_effect(device) ==
  /\ previousDataRef' = StringifyDevice(device)
  /\ state' = [state EXCEPT !.liveDevice = device]
  /\ interval' = NewHandle
  /\ intervals' = (intervals \ {interval}) \cup {NewHandle}

DeviceDetailModal_mount ==
  /\ view = "DeviceDetailModal" /\ phase = "constructed"
  /\ phase' = "mounted"
  /\ DeviceDetailModal_effect(props.device)
  /\ last' = [OtherStep("mount") EXCEPT !.calls = <<"setLiveDevice">>]
  /\ UNCHANGED <<view, props, inflight, backend, changes, propChanges, timeouts>>

DeviceDetailModal_propChange(device) ==
  /\ view = "DeviceDetailModal" /\ phase = "mounted"
  /\ propChanges < MaxPropChanges
  /\ propChanges' = propChanges + 1
  /\ props' = [props EXCEPT !.device = device]
  /\ DeviceDetailModal_effect(device)
  /\ last' = [OtherStep("propChange") EXCEPT !.calls = <<"setLiveDevice">>]
  /\ UNCHANGED <<view, phase, inflight, backend, changes, timeouts>>

\* the timer's closure is the one of the render whose effect set the timer,
\* so `device.id` is the id of the current prop
DeviceDetailModal_fetchDeviceSilently ==
  /\ view = "DeviceDetailModal"
  /\ intervals # {}
  /\ CanIssue("fetchDeviceSilently")
  /\ inflight' = Enqueue(inflight, Request("fetchDeviceSilently", "timer",
                                          "/api/devices/" \o props.device.id,
                                          DeviceById(backend.devices, props.device.id)))
  /\ last' = Issued("fetchDeviceSilently", "timer", <<>>)
  /\ UNCHANGED <<view, phase, props, state, previousDataRef, interval, intervals,
                 backend, changes, propChanges, timeouts>>

DeviceDetailModal_fetchDeviceSilently_settle(i, o) ==
  /\ view = "DeviceDetailModal"
  /\ i \in 1..Len(inflight) /\ inflight[i].fn = "fetchDeviceSilently"
  /\ o = "ok" => inflight[i].body # NULL
  /\ LET r == inflight[i] IN
       IF SilentOk(o) /\ SerializedDiffers(StringifyDevice(r.body), previousDataRef)
       THEN /\ previousDataRef' = StringifyDevice(r.body)
            /\ state' = [state EXCEPT !.liveDevice = r.body]
            /\ last' = SettledStep(r, o, <<"setLiveDevice">>)
       ELSE /\ UNCHANGED <<previousDataRef, state>>
            /\ last' = SettledStep(r, o, <<>>)
  /\ inflight' = Settled(i, o)
  /\ UNCHANGED <<view, phase, props, interval, intervals, backend, changes,
                 propChanges, timeouts>>

DeviceDetailModal_unmount ==
  /\ view = "DeviceDetailModal" /\ phase = "mounted"
  /\ phase' = "unmounted"
  /\ intervals' = intervals \ {interval}
  /\ last' = OtherStep("unmount")
  /\ UNCHANGED <<view, props, state, previousDataRef, interval, inflight, backend,
                 changes, propChanges, timeouts>>

DeviceDetailModal ==
  \/ DeviceDetailModal_mount
  \/ \E d \in KnownDevices : DeviceDetailModal_propChange(d)
  \/ DeviceDetailModal_fetchDeviceSilently
  \/ \E i \in 1..Len(inflight) : \E o \in Outcomes : DeviceDetailModal_fetchDeviceSilently_settle(i, o)
  \/ DeviceDetailModal_unmount

\* ------------------------------------------------------- TamperDetection
\* fetchDevices up to `await fetch`: setLoading(true)
TamperDetection_fetchDevices(by) ==
  /\ view = "TamperDetection"
  /\ CanIssue("fetchDevices") /\ CanNotify("fetchDevices")
  /\ state' = [state EXCEPT !.loading = TRUE]
  /\ inflight' = Enqueue(inflight, Request("fetchDevices", by, "/api/devices", backend.devices))
  /\ last' = Issued("fetchDevices", by, <<"setLoading">>)

\* the mount effect: fetchDevices() and setInterval(() => fetchDevices(), 10000)
TamperDetection_mount ==
  /\ phase = "constructed"
  /\ phase' = "mounted"
  /\ TamperDetection_fetchDevices("mount")
  /\ interval' = NewHandle
  /\ intervals' = intervals \cup {NewHandle}
  /\ UNCHANGED <<view, props, previousDataRef, backend, changes, propChanges, timeouts>>

\* the interval timer fires
TamperDetection_tick ==
  /\ intervals # {}
  /\ TamperDetection_fetchDevices("timer")
  /\ UNCHANGED <<view, phase, props, previousDataRef, interval, intervals, backend,
                 changes, propChanges, timeouts>>

\* the "Refresh now" button
TamperDetection_refresh ==
  /\ phase = "mounted"
  /\ TamperDetection_fetchDevices("click")
  /\ UNCHANGED <<view, phase, props, previousDataRef, interval, intervals, backend,
                 changes, propChanges, timeouts>>

TamperDetection_fetchDevices_settle(i, o) ==
  /\ view = "TamperDetection"
  /\ i \in 1..Len(inflight) /\ inflight[i].fn = "fetchDevices"
  /\ LET r == inflight[i] IN
       IF o = "ok"
       THEN /\ state' = [state EXCEPT !.deviceList = r.body, !.lastRefreshed = "now",
                                      !.loading = FALSE]
            /\ timeouts' = timeouts
            /\ last' = SettledStep(r, o, <<"setDeviceList", "setLastRefreshed", "setLoading">>)
       ELSE /\ state' = [state EXCEPT
                           !.notification = Notification("error", "Failed to load devices from backend."),
                           !.loading = FALSE]
            /\ timeouts' = timeouts + 1
            /\ last' = SettledStep(r, o, <<"setNotification", "setLoading">>)
  /\ inflight' = Settled(i, o)
  /\ UNCHANGED <<view, phase, props, previousDataRef, interval, intervals, backend,
                 changes, propChanges>>

TamperDetection_unmount ==
  /\ view = "TamperDetection" /\ phase = "mounted"
  /\ phase' = "unmounted"
  /\ intervals' = intervals \ {interval}
  /\ last' = OtherStep("unmount")
  /\ UNCHANGED <<view, props, state, previousDataRef, interval, inflight, backend,
                 changes, propChanges, timeouts>>

TamperDetection ==
  \/ TamperDetection_mount
  \/ TamperDetection_tick
  \/ TamperDetection_refresh
  \/ \E i \in 1..Len(inflight) : \E o \in Outcomes : TamperDetection_fetchDevices_settle(i, o)
  \/ TamperDetection_unmount
  \/ (view = "TamperDetection" /\ NotificationTimeout)

\* ------------------------------------------------------------------ Cash
\* fetchCashPayments up to `await fetch`: setLoading(true)
Cash_fetchCashPayments(by) ==
  /\ view = "Cash"
  /\ CanIssue("fetchCashPayments")
  /\ state' = [state EXCEPT !.loading = TRUE]
  /\ inflight' = Enqueue(inflight, Request("fetchCashPayments", by, "/api/account/cash", backend.cash))
  /\ last' = Issued("fetchCashPayments", by, <<"setLoading">>)

\* the mount effect: fetchCashPayments() and setInterval(..., 2000)
Cash_mount ==
  /\ phase = "constructed"
  /\ phase' = "mounted"
  /\ Cash_fetchCashPayments("mount")
  /\ interval' = NewHandle
  /\ intervals' = intervals \cup {NewHandle}
  /\ UNCHANGED <<view, props, previousDataRef, backend, changes, propChanges, timeouts>>

\* the interval timer fires
Cash_tick ==
  /\ intervals # {}
  /\ Cash_fetchCashPayments("timer")
  /\ UNCHANGED <<view, phase, props, previousDataRef, interval, intervals, backend,
                 changes, propChanges, timeouts>>

Cash_fetchCashPayments_settle(i, o) ==
  /\ view = "Cash"
  /\ i \in 1..Len(inflight) /\ inflight[i].fn = "fetchCashPayments"
  /\ LET r == inflight[i] IN
       IF o = "ok"
       THEN /\ state' = [state EXCEPT !.cashPayments = r.body, !.loading = FALSE]
            /\ last' = SettledStep(r, o, <<"setCashPayments", "setLoading">>)
       ELSE /\ state' = [state EXCEPT
                           !.error = OrElse(ErrMessage(o, "Failed to fetch cash payments"),
                                            "Error loading cash payments"),
                           !.loading = FALSE]
            /\ last' = SettledStep(r, o, <<"setError", "setLoading">>)
  /\ inflight' = Settled(i, o)
  /\ UNCHANGED <<view, phase, props, previousDataRef, interval, intervals, backend,
                 changes, propChanges, timeouts>>

Cash_unmount ==
  /\ view = "Cash" /\ phase = "mounted"
  /\ phase' = "unmounted"
  /\ intervals' = intervals \ {interval}
  /\ last' = OtherStep("unmount")
  /\ UNCHANGED <<view, props, state, previousDataRef, interval, inflight, backend,
                 changes, propChanges, timeouts>>

Cash ==
  \/ Cash_mount
  \/ Cash_tick
  \/ \E i \in 1..Len(inflight) : \E o \in Outcomes : Cash_fetchCashPayments_settle(i, o)
  \/ Cash_unmount

\* ------------------------------------------------- Dashboard and Sidebar
\* The Dashboard's fetchVendor, fetchDevices and fetchTransactions share no
\* state and no request: the component is the interleaving of three
\* controllers, and one of them is observed per behaviour (the views
\* "Dashboard.vendor", "Dashboard.devices", "Dashboard.transactions").  The
\* mount effect calls all three functions; each view shows the call that is
\* its own.

\* fetchVendor up to `await fetch` (the same code in Dashboard and Sidebar)
fetchVendor_begin(s) == [s EXCEPT !.loadingVendor = TRUE, !.vendorError = ""]
\* Dashboard.fetchDevices up to `await fetch`
fetchDevices_begin(s) == [s EXCEPT !.loadingDevices = TRUE, !.deviceError = ""]
\* Dashboard.fetchTransactions up to `await fetch`
fetchTransactions_begin(s) == [s EXCEPT !.loadingTransactions = TRUE, !.transactionError = ""]

\* mutant: a device that is online is not listed as tampered
Dashboard_tamperedDevices_offlineOnly(devices) ==
  SelectSeq(devices, LAMBDA d : d.isTampered /\ d.status # "online")

\* `devices.filter((d) => d.isTampered)`
Dashboard_tamperedDevices(devices) == SelectSeq(devices, LAMBDA d : d.isTampered)

\* the values of the optional prop `vendorUpdatedTrigger?: number`
TriggerValues == {Undefined} \cup 0..MaxPropChanges

\* mutant: the effect on [vendorUpdatedTrigger] calls fetchVendor for truthy
\* values only (`if (vendorUpdatedTrigger)`)
TriggerFetches_truthy(trigger) ==
  IF trigger # Undefined /\ trigger # 0
  THEN <<Request("fetchVendor", "trigger", "/api/vendor", backend.vendor)>>
  ELSE <<>>

\* the effect on [vendorUpdatedTrigger] calls fetchVendor unless the prop is undefined
TriggerFetches(trigger) ==
  IF trigger # Undefined
  THEN <<Request("fetchVendor", "trigger", "/api/vendor", backend.vendor)>>
  ELSE <<>>

\* the mount effects: fetchVendor(), fetchDevices(), fetchTransactions(), then
\* the effect on [vendorUpdatedTrigger]
Dashboard_mount ==
  /\ view \in DashboardViews /\ phase = "constructed"
  /\ phase' = "mounted"
  /\ CASE view = "Dashboard.vendor" ->
            /\ state' = fetchVendor_begin(state)
            /\ inflight' = EnqueueAll(<<>>, <<Request("fetchVendor", "mount", "/api/vendor", backend.vendor)>>
                                            \o TriggerFetches(props.vendorUpdatedTrigger))
            /\ last' = Issued("mount", "mount", <<"setLoadingVendor", "setVendorError">>)
       [] view = "Dashboard.devices" ->
            /\ state' = fetchDevices_begin(state)
            /\ inflight' = <<Request("fetchDevices", "mount", "/api/devices", backend.devices)>>
            /\ last' = Issued("mount", "mount", <<"setLoadingDevices", "setDeviceError">>)
       [] view = "Dashboard.transactions" ->
            /\ state' = fetchTransactions_begin(state)
            /\ inflight' = <<Request("fetchTransactions", "mount", "/api/transactions", backend.transactions)>>
            /\ last' = Issued("mount", "mount", <<"setLoadingTransactions", "setTransactionError">>)
  /\ UNCHANGED <<view, props, previousDataRef, interval, intervals, backend, changes,
                 propChanges, timeouts>>

\* Home passes a new vendorUpdatedTrigger: the effect re-runs
Dashboard_triggerChange(t) ==
  /\ view = "Dashboard.vendor" /\ phase = "mounted"
  /\ propChanges < MaxPropChanges
  /\ t # props.vendorUpdatedTrigger
  /\ t # Undefined => CanIssue("fetchVendor")
  /\ propChanges' = propChanges + 1
  /\ props' = [props EXCEPT !.vendorUpdatedTrigger = t]
  /\ state' = IF t # Undefined THEN fetchVendor_begin(state) ELSE state
  /\ inflight' = EnqueueAll(inflight, TriggerFetches(t))
  /\ last' = Issued("fetchVendor", "trigger",
                    IF t # Undefined THEN <<"setLoadingVendor", "setVendorError">> ELSE <<>>)
  /\ UNCHANGED <<view, phase, previousDataRef, interval, intervals, backend, changes, timeouts>>

\* the refresh icon of the Device Status card: onClick={fetchDevices}
Dashboard_refreshDevices ==
  /\ view = "Dashboard.devices" /\ phase = "mounted"
  /\ CanIssue("fetchDevices")
  /\ state' = fetchDevices_begin(state)
  /\ inflight' = Enqueue(inflight, Request("fetchDevices", "click", "/api/devices", backend.devices))
  /\ last' = Issued("fetchDevices", "click", <<"setLoadingDevices", "setDeviceError">>)
  /\ UNCHANGED <<view, phase, props, previousDataRef, interval, intervals, backend, changes,
                 propChanges, timeouts>>

\* the Alerts card: `if (tamperedDevices.length > 0)
\* setSelectedDevice(tamperedDevices[0])`, then setShowAlerts(true)
Dashboard_alertsClick ==
  /\ view = "Dashboard.devices" /\ phase = "mounted"
  /\ LET tamperedDevices == Dashboard_tamperedDevices(state.devices) IN
       IF Len(tamperedDevices) > 0
       THEN /\ state' = [state EXCEPT !.selectedDevice = tamperedDevices[1],
                                      !.showAlerts = TRUE]
            /\ last' = [OtherStep("alertsClick") EXCEPT
                          !.calls = <<"setSelectedDevice", "setShowAlerts">>]
       ELSE /\ state' = [state EXCEPT !.showAlerts = TRUE]
            /\ last' = [OtherStep("alertsClick") EXCEPT !.calls = <<"setShowAlerts">>]
  /\ UNCHANGED <<view, phase, props, previousDataRef, interval, intervals, inflight, backend,
                 changes, propChanges, timeouts>>

\* `showAlerts && tamperedDevices.length > 0`: the alert modal is rendered,
\* with device={selectedDevice!}
Dashboard_alertModalShown(s) == s.showAlerts /\ Len(Dashboard_tamperedDevices(s.devices)) > 0

\* onClose of the alert modal: setShowAlerts(false)
Dashboard_closeAlerts ==
  /\ view = "Dashboard.devices" /\ phase = "mounted"
  /\ Dashboard_alertModalShown(state)
  /\ state' = [state EXCEPT !.showAlerts = FALSE]
  /\ last' = [OtherStep("closeAlerts") EXCEPT !.calls = <<"setShowAlerts">>]
  /\ UNCHANGED <<view, phase, props, previousDataRef, interval, intervals, inflight, backend,
                 changes, propChanges, timeouts>>

\* fetchVendor after the response arrived (Dashboard and Sidebar)
fetchVendor_settle(i, o) ==
  /\ i \in 1..Len(inflight) /\ inflight[i].fn = "fetchVendor"
  /\ LET r == inflight[i] IN
       IF o = "ok"
       THEN /\ state' = [state EXCEPT !.vendor = r.body, !.loadingVendor = FALSE]
            /\ last' = SettledStep(r, o, <<"setVendor", "setLoadingVendor">>)
       ELSE /\ state' = [state EXCEPT
                           !.vendorError = OrElse(ErrMessage(o, "Failed to fetch vendor details"),
                                                  "Unknown error fetching vendor"),
                           !.loadingVendor = FALSE]
            /\ last' = SettledStep(r, o, <<"setVendorError", "setLoadingVendor">>)
  /\ inflight' = Settled(i, o)
  /\ UNCHANGED <<view, phase, props, previousDataRef, interval, intervals, backend, changes,
                 propChanges, timeouts>>

\* mutant: a request-sequence guard drops a response that was overtaken
Dashboard_fetchDevices_settle_guarded(i, o) ==
  /\ view = "Dashboard.devices"
  /\ i \in 1..Len(inflight) /\ inflight[i].fn = "fetchDevices"
  /\ LET r == inflight[i] IN
       IF r.overtaken
       THEN /\ state' = state
            /\ last' = SettledStep(r, o, <<>>)
       ELSE IF o = "ok"
       THEN /\ state' = [state EXCEPT !.devices = r.body, !.loadingDevices = FALSE]
            /\ last' = SettledStep(r, o, <<"setDevices", "setLoadingDevices">>)
       ELSE /\ state' = [state EXCEPT
                           !.deviceError = OrElse(ErrMessage(o, "Failed to fetch devices"),
                                                  "Unknown error"),
                           !.loadingDevices = FALSE]
            /\ last' = SettledStep(r, o, <<"setDeviceError", "setLoadingDevices">>)
  /\ inflight' = Settled(i, o)
  /\ UNCHANGED <<view, phase, props, previousDataRef, interval, intervals, backend, changes,
                 propChanges, timeouts>>

\* mutant: setLoadingDevices(false) sits at the end of the try block instead
\* of in `finally`
Dashboard_fetchDevices_settle_noFinally(i, o) ==
  /\ view = "Dashboard.devices"
  /\ i \in 1..Len(inflight) /\ inflight[i].fn = "fetchDevices"
  /\ LET r == inflight[i] IN
       IF o = "ok"
       THEN /\ state' = [state EXCEPT !.devices = r.body, !.loadingDevices = FALSE]
            /\ last' = SettledStep(r, o, <<"setDevices", "setLoadingDevices">>)
       ELSE /\ state' = [state EXCEPT
                           !.deviceError = OrElse(ErrMessage(o, "Failed to fetch devices"),
                                                  "Unknown error")]
            /\ last' = SettledStep(r, o, <<"setDeviceError">>)
  /\ inflight' = Settled(i, o)
  /\ UNCHANGED <<view, phase, props, previousDataRef, interval, intervals, backend, changes,
                 propChanges, timeouts>>

Dashboard_fetchDevices_settle(i, o) ==
  /\ view = "Dashboard.devices"
  /\ i \in 1..Len(inflight) /\ inflight[i].fn = "fetchDevices"
  /\ LET r == inflight[i] IN
       IF o = "ok"
       THEN /\ state' = [state EXCEPT !.devices = r.body, !.loadingDevices = FALSE]
            /\ last' = SettledStep(r, o, <<"setDevices", "setLoadingDevices">>)
       ELSE /\ state' = [state EXCEPT
                           !.deviceError = OrElse(ErrMessage(o, "Failed to fetch devices"),
                                                  "Unknown error"),
                           !.loadingDevices = FALSE]
            /\ last' = SettledStep(r, o, <<"setDeviceError", "setLoadingDevices">>)
  /\ inflight' = Settled(i, o)
  /\ UNCHANGED <<view, phase, props, previousDataRef, interval, intervals, backend, changes,
                 propChanges, timeouts>>

Dashboard_fetchTransactions_settle(i, o) ==
  /\ view = "Dashboard.transactions"
  /\ i \in 1..Len(inflight) /\ inflight[i].fn = "fetchTransactions"
  /\ LET r == inflight[i] IN
       IF o = "ok"
       THEN /\ state' = [state EXCEPT !.transactions = r.body, !.loadingTransactions = FALSE]
            /\ last' = SettledStep(r, o, <<"setTransactions", "setLoadingTransactions">>)
       ELSE /\ state' = [state EXCEPT
                           !.transactionError = OrElse(ErrMessage(o, "Failed to fetch transactions"),
                                                       "Unknown error"),
                           !.loadingTransactions = FALSE]
            /\ last' = SettledStep(r, o, <<"setTransactionError", "setLoadingTransactions">>)
  /\ inflight' = Settled(i, o)
  /\ UNCHANGED <<view, phase, props, previousDataRef, interval, intervals, backend, changes,
                 propChanges, timeouts>>

Dashboard ==
  \/ Dashboard_mount
  \/ \E t \in TriggerValues : Dashboard_triggerChange(t)
  \/ Dashboard_refreshDevices
  \/ Dashboard_alertsClick
  \/ Dashboard_closeAlerts
  \/ \E i \in 1..Len(inflight) : \E o \in Outcomes :
        \/ (view = "Dashboard.vendor" /\ fetchVendor_settle(i, o))
        \/ Dashboard_fetchDevices_settle(i, o)
        \/ Dashboard_fetchTransactions_settle(i, o)

\* the mount effects of the Sidebar: fetchVendor(), then the effect on
\* [vendorUpdatedTrigger]
Sidebar_mount ==
  /\ view = "Sidebar" /\ phase = "constructed"
  /\ phase' = "mounted"
  /\ state' = fetchVendor_begin(state)
  /\ inflight' = EnqueueAll(<<>>, <<Request("fetchVendor", "mount", "/api/vendor", backend.vendor)>>
                                   \o TriggerFetches(props.vendorUpdatedTrigger))
  /\ last' = Issued("mount", "mount", <<"setLoadingVendor", "setVendorError">>)
  /\ UNCHANGED <<view, props, previousDataRef, interval, intervals, backend, changes,
                 propChanges, timeouts>>

Sidebar_triggerChange(t) ==
  /\ view = "Sidebar" /\ phase = "mounted"
  /\ propChanges < MaxPropChanges
  /\ t # props.vendorUpdatedTrigger
  /\ t # Undefined => CanIssue("fetchVendor")
  /\ propChanges' = propChanges + 1
  /\ props' = [props EXCEPT !.vendorUpdatedTrigger = t]
  /\ state' = IF t # Undefined THEN fetchVendor_begin(state) ELSE state
  /\ inflight' = EnqueueAll(inflight, TriggerFetches(t))
  /\ last' = Issued("fetchVendor", "trigger",
                    IF t # Undefined THEN <<"setLoadingVendor", "setVendorError">> ELSE <<>>)
  /\ UNCHANGED <<view, phase, previousDataRef, interval, intervals, backend, changes, timeouts>>

\* the manual refresh icon: onClick={fetchVendor}
Sidebar_refreshVendor ==
  /\ view = "Sidebar" /\ phase = "mounted"
  /\ CanIssue("fetchVendor")
  /\ state' = fetchVendor_begin(state)
  /\ inflight' = Enqueue(inflight, Request("fetchVendor", "click", "/api/vendor", backend.vendor))
  /\ last' = Issued("fetchVendor", "click", <<"setLoadingVendor", "setVendorError">>)
  /\ UNCHANGED <<view, phase, props, previousDataRef, interval, intervals, backend, changes,
                 propChanges, timeouts>>

Sidebar ==
  \/ Sidebar_mount
  \/ \E t \in TriggerValues : Sidebar_triggerChange(t)
  \/ Sidebar_refreshVendor
  \/ \E i \in 1..Len(inflight) : \E o \in Outcomes : (view = "Sidebar" /\ fetchVendor_settle(i, o))

\* ----------------------------------------------------------------- Price
\* Text is a sequence of one-character strings.
DigitChars == <<"0", "1", "2", "3", "4", "5", "6", "7", "8", "9">>
IsDigit(c) == \E d \in 1..10 : DigitChars[d] = c
DigitValue(c) == (CHOOSE d \in 1..10 : DigitChars[d] = c) - 1

\* Number.prototype.toString of a non-negative integer
RECURSIVE NumberText(_)
NumberText(n) ==
  IF n < 10 THEN <<DigitChars[n + 1]>>
  ELSE NumberText(n \div 10) \o <<DigitChars[(n % 10) + 1]>>

\* the longest prefix of t that consists of digits
RECURSIVE DigitPrefix(_)
DigitPrefix(t) ==
  IF t = <<>> \/ ~IsDigit(t[1]) THEN <<>> ELSE <<t[1]>> \o DigitPrefix(Tail(t))

RECURSIVE DigitsValue(_, _)
DigitsValue(t, acc) ==
  IF t = <<>> THEN acc ELSE DigitsValue(Tail(t), acc * 10 + DigitValue(t[1]))

\* parseInt(text): leading white space is skipped, an optional sign is read,
\* then digits up to the first other character; NaN when there is no digit
ParseInt(text) ==
  LET t == SkipSpaces(text)
      negative == t # <<>> /\ t[1] = "-"
      unsigned == IF t # <<>> /\ t[1] \in {"-", "+"} THEN Tail(t) ELSE t
      digits == DigitPrefix(unsigned)
  IN IF digits = <<>> THEN [nan |-> TRUE, value |-> 0]
     ELSE [nan |-> FALSE,
           value |-> IF negative THEN 0 - DigitsValue(digits, 0) ELSE DigitsValue(digits, 0)]

\* mutant: `isNaN(price)`
InvalidPrice_nanOnly(price) == price.nan

\* `isNaN(price) || price <= 0`
InvalidPrice(price) == price.nan \/ price.value <= 0

\* what the <input type="number"> can hold
PriceInputs == {<<>>, <<"-", "5">>, <<"7", "0">>}

\* outcomes of POST /api/pricing: "ok" is 2xx with success = true,
\* "okNoSuccess" is 2xx with the success field missing or false
PostOutcomes == Outcomes \cup {"okNoSuccess"}

Feedback(type, message) == [type |-> type, message |-> message]

\* fetchPrice up to `await fetch`: setLoading(true)
Price_fetchPrice(by) ==
  /\ view = "Price"
  /\ CanIssue("fetchPrice")
  /\ state' = [state EXCEPT !.loading = TRUE]
  /\ inflight' = Enqueue(inflight, Request("fetchPrice", by, "/api/pricing", backend.pricing))
  /\ last' = Issued("fetchPrice", by, <<"setLoading">>)
  /\ UNCHANGED <<view, props, previousDataRef, interval, intervals, backend, changes,
                 propChanges, timeouts>>

\* the mount effect: fetchPrice()
Price_mount ==
  /\ phase = "constructed"
  /\ phase' = "mounted"
  /\ Price_fetchPrice("mount")

\* the Refresh button: onClick={fetchPrice}
Price_refresh ==
  /\ phase = "mounted"
  /\ phase' = phase
  /\ Price_fetchPrice("click")

\* fetchPrice after the response arrived; res.ok is not looked at, so an
\* { error } body is stored by setPricing before data.pricePerLitre.toString()
\* throws
Price_fetchPrice_settle(i, o) ==
  /\ view = "Price"
  /\ i \in 1..Len(inflight) /\ inflight[i].fn = "fetchPrice"
  /\ LET r == inflight[i]
         failed == Feedback("error", "Failed to fetch current price")
     IN
       CASE o = "ok" ->
              /\ state' = [state EXCEPT !.pricing = r.body,
                                        !.newPrice = NumberText(r.body.pricePerLitre),
                                        !.feedback = NULL,
                                        !.loading = FALSE]
              /\ last' = SettledStep(r, o, <<"setPricing", "setNewPrice", "setFeedback", "setLoading">>)
         [] o = "http" ->
              /\ state' = [state EXCEPT !.pricing = ErrorBody, !.feedback = failed,
                                        !.loading = FALSE]
              /\ last' = SettledStep(r, o, <<"setPricing", "setFeedback", "setLoading">>)
         [] OTHER ->
              /\ state' = [state EXCEPT !.feedback = failed, !.loading = FALSE]
              /\ last' = SettledStep(r, o, <<"setFeedback", "setLoading">>)
  /\ inflight' = Settled(i, o)
  /\ UNCHANGED <<view, phase, props, previousDataRef, interval, intervals, backend, changes,
                 propChanges, timeouts>>

\* the "Set New Price" button
Price_setIsEditing ==
  /\ view = "Price" /\ phase = "mounted"
  /\ ~state.isEditing
  /\ state' = [state EXCEPT !.isEditing = TRUE]
  /\ last' = [OtherStep("setIsEditing") EXCEPT !.calls = <<"setIsEditing">>]
  /\ UNCHANGED <<view, phase, props, previousDataRef, interval, intervals, inflight, backend,
                 changes, propChanges, timeouts>>

\* the input's onChange
Price_onChange(text) ==
  /\ view = "Price" /\ phase = "mounted"
  /\ state.isEditing
  /\ text # state.newPrice
  /\ state' = [state EXCEPT !.newPrice = text, !.feedback = NULL]
  /\ last' = [OtherStep("onChange") EXCEPT !.calls = <<"setNewPrice", "setFeedback">>]
  /\ UNCHANGED <<view, phase, props, previousDataRef, interval, intervals, inflight, backend,
                 changes, propChanges, timeouts>>

\* the Cancel button; pricing.pricePerLitre.toString() throws when pricing
\* holds an { error } body, after setIsEditing(false) was called
Price_cancel ==
  /\ view = "Price" /\ phase = "mounted"
  /\ state.isEditing
  /\ IF state.pricing # ErrorBody
     THEN /\ state' = [state EXCEPT !.isEditing = FALSE,
                                    !.newPrice = NumberText(state.pricing.pricePerLitre),
                                    !.feedback = NULL]
          /\ last' = [OtherStep("cancel") EXCEPT
                        !.calls = <<"setIsEditing", "setNewPrice", "setFeedback">>]
     ELSE /\ state' = [state EXCEPT !.isEditing = FALSE]
          /\ last' = [OtherStep("cancel") EXCEPT !.calls = <<"setIsEditing">>]
  /\ UNCHANGED <<view, phase, props, previousDataRef, interval, intervals, inflight, backend,
                 changes, propChanges, timeouts>>

\* the "Confirm Price" button (disabled while loading): handleSetPrice up to
\* `await fetch`, or up to the return of the validation
Price_handleSetPrice ==
  /\ view = "Price" /\ phase = "mounted"
  /\ state.isEditing /\ ~state.loading
  /\ LET price == ParseInt(state.newPrice) IN
       IF InvalidPrice(price)
       THEN /\ state' = [state EXCEPT
                           !.feedback = Feedback("error", "Please enter a valid price greater than 0")]
            /\ inflight' = inflight
            /\ last' = [OtherStep("handleSetPrice") EXCEPT !.calls = <<"setFeedback">>]
       ELSE /\ CanIssue("handleSetPrice")
            /\ state' = [state EXCEPT !.loading = TRUE]
            /\ inflight' = Enqueue(inflight,
                                   Request("handleSetPrice", "click", "POST /api/pricing",
                                           [pricePerLitre |-> price.value]))
            /\ last' = Issued("handleSetPrice", "click", <<"setLoading">>)
  /\ UNCHANGED <<view, phase, props, previousDataRef, interval, intervals, backend, changes,
                 propChanges, timeouts>>

\* mutant: `if (res.ok)`
PostSucceeded_statusOnly(o) == o \in {"ok", "okNoSuccess"}

\* `res.ok && data.success`
PostSucceeded(o) == o = "ok"

\* handleSetPrice after the response arrived; a successful POST has changed
\* the backend's price
Price_handleSetPrice_settle(i, o) ==
  /\ view = "Price"
  /\ i \in 1..Len(inflight) /\ inflight[i].fn = "handleSetPrice"
  /\ LET r == inflight[i] IN
       CASE PostSucceeded(o) ->
              /\ state' = [state EXCEPT !.pricing = r.body,
                                        !.feedback = Feedback("success", "Price updated successfully"),
                                        !.isEditing = FALSE,
                                        !.loading = FALSE]
              /\ backend' = [backend EXCEPT !.pricing = r.body]
              /\ last' = SettledStep(r, o, <<"setPricing", "setFeedback", "setIsEditing", "setLoading">>)
         [] ~PostSucceeded(o) /\ o \in {"okNoSuccess", "http"} ->
              /\ state' = [state EXCEPT
                             !.feedback = Feedback("error",
                                                   IF o = "http"
                                                   THEN OrElse(ErrorBody.error, "Failed to update price")
                                                   ELSE OrElse("", "Failed to update price")),
                             !.loading = FALSE]
              /\ backend' = backend
              /\ last' = SettledStep(r, o, <<"setFeedback", "setLoading">>)
         [] OTHER ->
              /\ state' = [state EXCEPT !.feedback = Feedback("error", "Failed to update price"),
                                        !.loading = FALSE]
              /\ backend' = backend
              /\ last' = SettledStep(r, o, <<"setFeedback", "setLoading">>)
  /\ inflight' = Settled(i, o)
  /\ UNCHANGED <<view, phase, props, previousDataRef, interval, intervals, changes,
                 propChanges, timeouts>>

Price ==
  \/ Price_mount
  \/ Price_refresh
  \/ \E i \in 1..Len(inflight) : \E o \in Outcomes : Price_fetchPrice_settle(i, o)
  \/ Price_setIsEditing
  \/ \E text \in PriceInputs : Price_onChange(text)
  \/ Price_cancel
  \/ Price_handleSetPrice
  \/ \E i \in 1..Len(inflight) : \E o \in PostOutcomes : Price_handleSetPrice_settle(i, o)

\* --------------------------------------------------------------- Account
\* The vendor card (fetchVendor, handleVendorUpdate) and the withdrawal form
\* (handleWithdraw) of AccountPage share no state: the views
\* "Account.vendor" and "Account.withdraw" observe one of them each.

\* what the user types into the Vendor Name and the Shop Name input
NameInputs == {<<" ">>, <<" ", "B">>}
ShopNameInputs == {<<" ">>}

\* what Home passes to its consumers as vendorUpdatedTrigger: the prop is
\* absent from <Sidebar ... /> and <Dashboard appData={appData} />
Home_vendorUpdatedTrigger == Undefined

\* the mount effect of the backend version: fetchVendor() up to `await fetch`
Account_mount ==
  /\ view \in AccountViews /\ phase = "constructed"
  /\ phase' = "mounted"
  /\ IF view = "Account.vendor"
     THEN /\ state' = [state EXCEPT !.loadingVendor = TRUE]
          /\ inflight' = Enqueue(inflight, Request("fetchVendor", "mount", "/api/vendor", backend.vendor))
          /\ last' = Issued("fetchVendor", "mount", <<"setLoadingVendor">>)
     ELSE /\ state' = state
          /\ inflight' = inflight
          /\ last' = OtherStep("mount")
  /\ UNCHANGED <<view, props, previousDataRef, interval, intervals, backend, changes,
                 propChanges, timeouts>>

\* AccountPage.fetchVendor after the response arrived
Account_fetchVendor_settle(i, o) ==
  /\ view = "Account.vendor"
  /\ i \in 1..Len(inflight) /\ inflight[i].fn = "fetchVendor"
  /\ LET r == inflight[i] IN
       IF o = "ok"
       THEN /\ state' = [state EXCEPT !.vendor = r.body,
                                      !.vendorName = r.body.name,
                                      !.shopName = r.body.shopName,
                                      !.loadingVendor = FALSE]
            /\ last' = SettledStep(r, o, <<"setVendor", "setVendorName", "setShopName",
                                            "setLoadingVendor">>)
       ELSE /\ state' = [state EXCEPT
                           !.feedback = Feedback("error",
                                                 OrElse(ErrMessage(o, "Failed to fetch vendor details"),
                                                        "Failed to load vendor")),
                           !.loadingVendor = FALSE]
            /\ last' = SettledStep(r, o, <<"setFeedback", "setLoadingVendor">>)
  /\ inflight' = Settled(i, o)
  /\ UNCHANGED <<view, phase, props, previousDataRef, interval, intervals, backend, changes,
                 propChanges, timeouts>>

\* the vendor card shows the vendor (not the loading text, not "No vendor found")
Account_vendorShown == ~state.loadingVendor /\ state.vendor # NULL

\* the Edit button
Account_setEditMode ==
  /\ view = "Account.vendor" /\ phase = "mounted"
  /\ Account_vendorShown /\ ~state.editMode
  /\ state' = [state EXCEPT !.editMode = TRUE]
  /\ last' = [OtherStep("setEditMode") EXCEPT !.calls = <<"setEditMode">>]
  /\ UNCHANGED <<view, phase, props, previousDataRef, interval, intervals, inflight, backend,
                 changes, propChanges, timeouts>>

\* onChange of the Vendor Name input
Account_onChangeVendorName(text) ==
  /\ view = "Account.vendor" /\ phase = "mounted"
  /\ Account_vendorShown /\ state.editMode
  /\ text # state.vendorName
  /\ state' = [state EXCEPT !.vendorName = text]
  /\ last' = [OtherStep("onChangeVendorName") EXCEPT !.calls = <<"setVendorName">>]
  /\ UNCHANGED <<view, phase, props, previousDataRef, interval, intervals, inflight, backend,
                 changes, propChanges, timeouts>>

\* onChange of the Shop Name input
Account_onChangeShopName(text) ==
  /\ view = "Account.vendor" /\ phase = "mounted"
  /\ Account_vendorShown /\ state.editMode
  /\ text # state.shopName
  /\ state' = [state EXCEPT !.shopName = text]
  /\ last' = [OtherStep("onChangeShopName") EXCEPT !.calls = <<"setShopName">>]
  /\ UNCHANGED <<view, phase, props, previousDataRef, interval, intervals, inflight, backend,
                 changes, propChanges, timeouts>>

\* the Cancel button of the vendor card
Account_cancelEdit ==
  /\ view = "Account.vendor" /\ phase = "mounted"
  /\ Account_vendorShown /\ state.editMode
  /\ state' = [state EXCEPT !.editMode = FALSE,
                            !.vendorName = state.vendor.name,
                            !.shopName = state.vendor.shopName]
  /\ last' = [OtherStep("cancelEdit") EXCEPT
                !.calls = <<"setEditMode", "setVendorName", "setShopName">>]
  /\ UNCHANGED <<view, phase, props, previousDataRef, interval, intervals, inflight, backend,
                 changes, propChanges, timeouts>>

\* mutant: the name and the shop name are tested without trimming
VendorFieldsEmpty_untrimmed(vendorName, shopName) == vendorName = <<>> \/ shopName = <<>>

\* `!vendorName.trim() || !shopName.trim()`
VendorFieldsEmpty(vendorName, shopName) == Trim(vendorName) = <<>> \/ Trim(shopName) = <<>>

\* the Save button: handleVendorUpdate up to `await fetch`, or up to the
\* return of the validation
Account_handleVendorUpdate ==
  /\ view = "Account.vendor" /\ phase = "mounted"
  /\ Account_vendorShown /\ state.editMode
  /\ IF VendorFieldsEmpty(state.vendorName, state.shopName)
     THEN /\ state' = [state EXCEPT
                         !.feedback = Feedback("error", "Name and Shop Name cannot be empty")]
          /\ inflight' = inflight
          /\ last' = [OtherStep("handleVendorUpdate") EXCEPT !.calls = <<"setFeedback">>]
     ELSE /\ CanIssue("handleVendorUpdate")
          /\ state' = state
          /\ inflight' = Enqueue(inflight,
                                 Request("handleVendorUpdate", "click",
                                         "PUT /api/vendor/" \o state.vendor.id,
                                         [id |-> state.vendor.id,
                                          name |-> Trim(state.vendorName),
                                          shopName |-> Trim(state.shopName)]))
          /\ last' = Issued("handleVendorUpdate", "click", <<>>)
  /\ UNCHANGED <<view, phase, props, previousDataRef, interval, intervals, backend, changes,
                 propChanges, timeouts>>

\* handleVendorUpdate after the response arrived; a successful PUT has
\* changed the backend's vendor.  No callback of the parent is called.
Account_handleVendorUpdate_settle(i, o) ==
  /\ view = "Account.vendor"
  /\ i \in 1..Len(inflight) /\ inflight[i].fn = "handleVendorUpdate"
  /\ LET r == inflight[i] IN
       IF o = "ok"
       THEN /\ state' = [state EXCEPT
                           !.vendor = r.body,
                           !.editMode = FALSE,
                           !.feedback = Feedback("success", "Vendor details updated successfully")]
            /\ backend' = [backend EXCEPT !.vendor = r.body]
            /\ last' = SettledStep(r, o, <<"setVendor", "setEditMode", "setFeedback">>)
       ELSE /\ state' = [state EXCEPT
                           !.feedback = Feedback("error",
                                                 OrElse(ErrMessage(o, "Failed to update vendor"),
                                                        "Failed to update vendor"))]
            /\ backend' = backend
            /\ last' = SettledStep(r, o, <<"setFeedback">>)
  /\ inflight' = Settled(i, o)
  /\ UNCHANGED <<view, phase, props, previousDataRef, interval, intervals, changes,
                 propChanges, timeouts>>

\* what the <input type="number"> of the withdrawal form can hold
WithdrawInputs == {<<>>, <<"0">>, <<"7", "0">>, <<"1", "5", "0", "1">>}

\* the ids Math.random() can give a withdrawal (two of the thousand)
WithdrawalIds == {"WD_000", "WD_001"}

\* n.toString().padStart(3, "0") for 0 <= n < 1000
PadStart3(n) ==
  IF n < 10 THEN "00" \o ToString(n)
  ELSE IF n < 100 THEN "0" \o ToString(n)
  ELSE ToString(n)

\* Number.prototype.toLocaleString of a non-negative integer below a
\* million, in a locale that groups by thousands with a comma
LocaleString(n) ==
  IF n < 1000 THEN ToString(n)
  ELSE ToString(n \div 1000) \o "," \o PadStart3(n % 1000)

\* the "Withdraw Funds" button
Account_setIsWithdrawing ==
  /\ view = "Account.withdraw" /\ phase = "mounted"
  /\ ~state.isWithdrawing
  /\ state' = [state EXCEPT !.isWithdrawing = TRUE]
  /\ last' = [OtherStep("setIsWithdrawing") EXCEPT !.calls = <<"setIsWithdrawing">>]
  /\ UNCHANGED <<view, phase, props, previousDataRef, interval, intervals, inflight, backend,
                 changes, propChanges, timeouts>>

\* onChange of the amount input
Account_onChangeAmount(text) ==
  /\ view = "Account.withdraw" /\ phase = "mounted"
  /\ state.isWithdrawing
  /\ text # state.withdrawAmount
  /\ state' = [state EXCEPT !.withdrawAmount = text, !.error = ""]
  /\ last' = [OtherStep("onChangeAmount") EXCEPT !.calls = <<"setWithdrawAmount", "setError">>]
  /\ UNCHANGED <<view, phase, props, previousDataRef, interval, intervals, inflight, backend,
                 changes, propChanges, timeouts>>

\* the Cancel button of the withdrawal form
Account_cancelWithdraw ==
  /\ view = "Account.withdraw" /\ phase = "mounted"
  /\ state.isWithdrawing
  /\ state' = [state EXCEPT !.isWithdrawing = FALSE, !.withdrawAmount = <<>>, !.error = ""]
  /\ last' = [OtherStep("cancelWithdraw") EXCEPT
                !.calls = <<"setIsWithdrawing", "setWithdrawAmount", "setError">>]
  /\ UNCHANGED <<view, phase, props, previousDataRef, interval, intervals, inflight, backend,
                 changes, propChanges, timeouts>>

\* mutant: the new withdrawal is put at the end of the list
Home_handleWithdraw_append(account, amount, id) ==
  [balance |-> account.balance - amount,
   withdrawals |-> account.withdrawals \o <<[id |-> id, amount |-> amount]>>]

\* Home.handleWithdraw(amount): the new appData.account (the timestamp of
\* the withdrawal is left out)
Home_handleWithdraw(account, amount, id) ==
  [balance |-> account.balance - amount,
   withdrawals |-> <<[id |-> id, amount |-> amount]>> \o account.withdrawals]

\* mutant: `amount >= account.balance`
ExceedsBalance_orEqual(amount, balance) == amount >= balance

\* `amount > account.balance`
ExceedsBalance(amount, balance) == amount > balance

\* the "Confirm Withdrawal" button: handleWithdraw, with the onWithdraw of Home
Account_handleWithdraw ==
  /\ view = "Account.withdraw" /\ phase = "mounted"
  /\ state.isWithdrawing
  /\ LET amount == ParseInt(state.withdrawAmount) IN
       CASE amount.nan \/ amount.value <= 0 ->
              /\ state' = [state EXCEPT !.error = "Please enter a valid amount greater than 0"]
              /\ props' = props
              /\ last' = [OtherStep("handleWithdraw") EXCEPT !.calls = <<"setError">>]
         [] ~(amount.nan \/ amount.value <= 0)
              /\ ExceedsBalance(amount.value, props.account.balance) ->
              /\ state' = [state EXCEPT
                             !.error = "Insufficient balance. Your current balance is KES "
                                         \o LocaleString(props.account.balance)]
              /\ props' = props
              /\ last' = [OtherStep("handleWithdraw") EXCEPT !.calls = <<"setError">>]
         [] OTHER ->
              /\ Len(props.account.withdrawals) < MaxWithdrawals
              /\ state' = [state EXCEPT !.isWithdrawing = FALSE, !.withdrawAmount = <<>>,
                                        !.error = ""]
              /\ \E id \in WithdrawalIds :
                   props' = [props EXCEPT
                               !.account = Home_handleWithdraw(props.account, amount.value, id)]
              /\ last' = [OtherStep("handleWithdraw") EXCEPT
                            !.body = [amount |-> amount.value],
                            !.calls = <<"onWithdraw", "setIsWithdrawing", "setWithdrawAmount",
                                        "setError">>]
  /\ UNCHANGED <<view, phase, previousDataRef, interval, intervals, inflight, backend, changes,
                 propChanges, timeouts>>

Account ==
  \/ Account_mount
  \/ \E i \in 1..Len(inflight) : \E o \in Outcomes : Account_fetchVendor_settle(i, o)
  \/ Account_setEditMode
  \/ \E text \in NameInputs : Account_onChangeVendorName(text)
  \/ \E text \in ShopNameInputs : Account_onChangeShopName(text)
  \/ Account_cancelEdit
  \/ Account_handleVendorUpdate
  \/ \E i \in 1..Len(inflight) : \E o \in Outcomes : Account_handleVendorUpdate_settle(i, o)
  \/ Account_setIsWithdrawing
  \/ \E text \in WithdrawInputs : Account_onChangeAmount(text)
  \/ Account_cancelWithdraw
  \/ Account_handleWithdraw

\* ------------------------------------------------------------------ Home
\* Home with the Sidebar of components/sidebar.tsx: the page that is shown
\* and the mobile sidebar's open flag.

\* the content of /data/app-data.json (the parts the pages read)
AppData ==
  [account |-> [balance |-> 1500, withdrawals |-> <<>>], pricing |-> [pricePerLitre |-> 60]]

\* the ids of the Sidebar's menuItems
MenuItems ==
  {"dashboard", "atm-devices", "tamper-detection", "sales-analytics", "price", "account"}

\* the mount effect: loadData() up to `await fetch`
Home_mount ==
  /\ view = "Home" /\ phase = "constructed"
  /\ phase' = "mounted"
  /\ inflight' = Enqueue(inflight, Request("loadData", "mount", "/data/app-data.json", AppData))
  /\ last' = Issued("loadData", "mount", <<>>)
  /\ UNCHANGED <<view, props, state, previousDataRef, interval, intervals, backend, changes,
                 propChanges, timeouts>>

\* loadData after the response arrived; res.ok is not looked at
Home_loadData_settle(i, o) ==
  /\ view = "Home"
  /\ i \in 1..Len(inflight) /\ inflight[i].fn = "loadData"
  /\ LET r == inflight[i] IN
       CASE o = "ok" ->
              /\ state' = [state EXCEPT !.appData = r.body, !.loading = FALSE]
              /\ last' = SettledStep(r, o, <<"setAppData", "setLoading">>)
         [] o = "http" ->
              /\ state' = [state EXCEPT !.appData = ErrorBody, !.loading = FALSE]
              /\ last' = SettledStep(r, o, <<"setAppData", "setLoading">>)
         [] OTHER ->
              /\ state' = [state EXCEPT !.loading = FALSE]
              /\ last' = SettledStep(r, o, <<"setLoading">>)
  /\ inflight' = Settled(i, o)
  /\ UNCHANGED <<view, phase, props, previousDataRef, interval, intervals, backend, changes,
                 propChanges, timeouts>>

\* the layout with the Sidebar is rendered (not the loading screen)
Home_layoutShown == ~state.loading /\ state.appData # NULL

\* onPageChange of Home: setCurrentPage(page), setSidebarOpen(false)
Home_onPageChange(s, page) == [s EXCEPT !.currentPage = page, !.sidebarOpen = FALSE]

\* onToggle of Home: setSidebarOpen(!sidebarOpen), where sidebarOpen is the
\* value of the render the handler was created in
Home_onToggle(s, sidebarOpen) == [s EXCEPT !.sidebarOpen = ~sidebarOpen]

\* the menu button and the backdrop of the Sidebar: onClick={onToggle}
Sidebar_toggleClick ==
  /\ view = "Home" /\ phase = "mounted" /\ Home_layoutShown
  /\ state' = Home_onToggle(state, state.sidebarOpen)
  /\ last' = [OtherStep("onToggle") EXCEPT !.calls = <<"setSidebarOpen">>]
  /\ UNCHANGED <<view, phase, props, previousDataRef, interval, intervals, inflight, backend,
                 changes, propChanges, timeouts>>

\* a menu item of the Sidebar: onPageChange(item.id), then onToggle(); the
\* setters of one event handler are applied in call order
Sidebar_menuItemClick(item) ==
  /\ view = "Home" /\ phase = "mounted" /\ Home_layoutShown
  /\ state' = Home_onToggle(Home_onPageChange(state, item), state.sidebarOpen)
  /\ last' = [OtherStep("menuItemClick") EXCEPT
                !.body = [item |-> item],
                !.calls = <<"setCurrentPage", "setSidebarOpen", "setSidebarOpen">>]
  /\ UNCHANGED <<view, phase, props, previousDataRef, interval, intervals, inflight, backend,
                 changes, propChanges, timeouts>>

Home ==
  \/ Home_mount
  \/ \E i \in 1..Len(inflight) : \E o \in Outcomes : Home_loadData_settle(i, o)
  \/ Sidebar_toggleClick
  \/ \E item \in MenuItems : Sidebar_menuItemClick(item)

Next ==
  \/ BackendChange
  \/ AtmDevices
  \/ DeviceStatusList
  \/ DeviceDetailModal
  \/ TamperDetection
  \/ Cash
  \/ Dashboard
  \/ Sidebar
  \/ Price
  \/ Account
  \/ Home
  \/ AtmDevicesLocal
  \/ DeviceStatusListPair

Spec == Init /\ [][Next]_vars

\* ------------------------------------------------------------- rendering
\* What the JSX computes from a device or from the device list.  Capacities
\* are whole litres, so that `(capacityValue / 100) * 100` is computed as
\* (capacityValue * 100) / 100 without a remainder.
Min2(a, b) == IF a < b THEN a ELSE b

\* Dashboard, Device Status card
Dashboard_capacityPercent(capacityValue) == Min2((capacityValue * 100) \div 100, 100)
Dashboard_capacityBarColor(capacityPercent) ==
  IF capacityPercent >= 50 THEN "bg-green-500"
  ELSE IF capacityPercent >= 25 THEN "bg-yellow-400"
  ELSE "bg-red-500"

\* DeviceStatusList, one row of the list
DeviceStatusList_capacityPercent(capacityValue) == Min2((capacityValue * 100) \div 100, 100)

\* mutant: the lower boundaries of the bands are exclusive
DeviceStatusList_capacityBarColor_exclusive(capacityPercent) ==
  IF capacityPercent > 50 THEN "bg-green-500"
  ELSE IF capacityPercent > 25 THEN "bg-yellow-400"
  ELSE "bg-red-500"

DeviceStatusList_capacityBarColor(capacityPercent) ==
  IF capacityPercent >= 50 THEN "bg-green-500"
  ELSE IF capacityPercent >= 25 THEN "bg-yellow-400"
  ELSE "bg-red-500"

\* DeviceDetailModal
DeviceDetailModal_capacityPercent(capacityValue) == Min2((capacityValue * 100) \div 100, 100)
DeviceDetailModal_capacityBarColor(capacityPercent) ==
  IF capacityPercent >= 50 THEN "bg-green-500"
  ELSE IF capacityPercent >= 25 THEN "bg-yellow-400"
  ELSE "bg-red-500"

\* the capacity bar a view renders for a device
CapacityBar(percent, color) == [capacityPercent |-> percent, capacityBarColor |-> color]

\* the capacities a device can report
Capacities == (0 - MaxOverflow)..(100 + MaxOverflow)

RenderViews == {"Dashboard.devices", "DeviceStatusList", "DeviceDetailModal"}

\* a view is about to render the capacity bar of one device
InitRender ==
  /\ view \in RenderViews
  /\ phase = "constructed"
  /\ props \in {[device |-> [id |-> "D1", status |-> "online", isTampered |-> FALSE,
                              capacity |-> c]] : c \in Capacities}
  /\ state = NULL
  /\ previousDataRef = ""
  /\ interval = 0
  /\ intervals = {}
  /\ inflight = <<>>
  /\ backend = InitBackend
  /\ changes = 0
  /\ propChanges = 0
  /\ timeouts = 0
  /\ last = NoStep

Dashboard_render ==
  /\ view = "Dashboard.devices" /\ phase = "constructed"
  /\ phase' = "rendered"
  /\ LET capacityPercent == Dashboard_capacityPercent(props.device.capacity)
     IN state' = CapacityBar(capacityPercent, Dashboard_capacityBarColor(capacityPercent))
  /\ last' = OtherStep("render")
  /\ UNCHANGED <<view, props, previousDataRef, interval, intervals, inflight, backend,
                 changes, propChanges, timeouts>>

DeviceStatusList_render ==
  /\ view = "DeviceStatusList" /\ phase = "constructed"
  /\ phase' = "rendered"
  /\ LET capacityPercent == DeviceStatusList_capacityPercent(props.device.capacity)
     IN state' = CapacityBar(capacityPercent, DeviceStatusList_capacityBarColor(capacityPercent))
  /\ last' = OtherStep("render")
  /\ UNCHANGED <<view, props, previousDataRef, interval, intervals, inflight, backend,
                 changes, propChanges, timeouts>>

DeviceDetailModal_render ==
  /\ view = "DeviceDetailModal" /\ phase = "constructed"
  /\ phase' = "rendered"
  /\ LET capacityPercent == DeviceDetailModal_capacityPercent(props.device.capacity)
     IN state' = CapacityBar(capacityPercent, DeviceDetailModal_capacityBarColor(capacityPercent))
  /\ last' = OtherStep("render")
  /\ UNCHANGED <<view, props, previousDataRef, interval, intervals, inflight, backend,
                 changes, propChanges, timeouts>>

\* the derived stats of the Dashboard
Dashboard_onlineDevices(devices) ==
  Cardinality({i \in 1..Len(devices) : devices[i].status = "online"})
Dashboard_totalDevices(devices) == Len(devices)

\* TamperDetection: `deviceList.filter((device) => device.isTampered)`
TamperDetection_tamperedDevices(deviceList) == SelectSeq(deviceList, LAMBDA d : d.isTampered)

\* the device lists a fetch can have committed: up to MaxDevices devices,
\* each online or offline, tampered or not
DeviceLists ==
  UNION {{[i \in 1..n |-> [id |-> "D" \o ToString(i),
                           status |-> IF f[i][1] THEN "online" ELSE "offline",
                           isTampered |-> f[i][2],
                           capacity |-> 50]] : f \in [1..n -> BOOLEAN \X BOOLEAN]}
         : n \in 0..MaxDevices}

\* a view holds a device list and is about to render what it derives from it
InitDerive ==
  /\ view \in {"Dashboard.devices", "TamperDetection"}
  /\ phase = "loaded"
  /\ props = [none |-> TRUE]
  /\ state \in {IF view = "TamperDetection" THEN [deviceList |-> D] ELSE [devices |-> D]
                 : D \in DeviceLists}
  /\ previousDataRef = ""
  /\ interval = 0
  /\ intervals = {}
  /\ inflight = <<>>
  /\ backend = InitBackend
  /\ changes = 0
  /\ propChanges = 0
  /\ timeouts = 0
  /\ last = NoStep

\* the derived values of one render, kept next to the list they come from
Dashboard_derive ==
  /\ view = "Dashboard.devices" /\ phase = "loaded"
  /\ phase' = "derived"
  /\ state' = [devices |-> state.devices,
               onlineDevices |-> Dashboard_onlineDevices(state.devices),
               totalDevices |-> Dashboard_totalDevices(state.devices),
               tamperedDevices |-> Dashboard_tamperedDevices(state.devices)]
  /\ last' = OtherStep("render")
  /\ UNCHANGED <<view, props, previousDataRef, interval, intervals, inflight, backend,
                 changes, propChanges, timeouts>>

TamperDetection_derive ==
  /\ view = "TamperDetection" /\ phase = "loaded"
  /\ phase' = "derived"
  /\ state' = [deviceList |-> state.deviceList,
               tamperedDevices |-> TamperDetection_tamperedDevices(state.deviceList)]
  /\ last' = OtherStep("render")
  /\ UNCHANGED <<view, props, previousDataRef, interval, intervals, inflight, backend,
                 changes, propChanges, timeouts>>

NextRender ==
  \/ Dashboard_render
  \/ DeviceStatusList_render
  \/ DeviceDetailModal_render
  \/ Dashboard_derive
  \/ TamperDetection_derive

RenderSpec == (InitRender \/ InitDerive) /\ [][NextRender]_vars

\* `Math.round((onlineDevices / totalDevices) * 100)`; onlineDevices is 0
\* when totalDevices is 0, and 0 / 0 is NaN
Dashboard_uptime(devices) ==
  LET onlineDevices == Dashboard_onlineDevices(devices)
      totalDevices == Dashboard_totalDevices(devices)
  IN IF totalDevices = 0 THEN [nan |-> TRUE, value |-> 0]
     ELSE [nan |-> FALSE,
           value |-> (2 * onlineDevices * 100 + totalDevices) \div (2 * totalDevices)]

\* the `change` line of the Active Devices card
Dashboard_activeDevicesChange(s) ==
  IF s.loadingDevices THEN ""
  ELSE LET uptime == Dashboard_uptime(s.devices)
       IN (IF uptime.nan THEN "NaN" ELSE ToString(uptime.value)) \o "% uptime"

\* ------------------------------------------- fair polling (silent views)
\* The views that poll with the silent fetch, kept mounted; the timer keeps
\* firing, every request settles, and polls succeed again and again.
SilentViews == {"AtmDevices", "DeviceStatusList", "DeviceDetailModal"}

InitLive == Init /\ view \in SilentViews

Mounts == AtmDevices_mount \/ DeviceStatusList_mount \/ DeviceDetailModal_mount

PropChanges ==
  \/ \E d \in DevicePayloads : DeviceStatusList_propChange(d)
  \/ \E d \in KnownDevices : DeviceDetailModal_propChange(d)

Ticks ==
  \/ AtmDevices_fetchDevicesSilently
  \/ DeviceStatusList_fetchDevicesSilently
  \/ DeviceDetailModal_fetchDeviceSilently

SilentSettle(i, o) ==
  \/ AtmDevices_fetchDevicesSilently_settle(i, o)
  \/ DeviceStatusList_fetchDevicesSilently_settle(i, o)
  \/ DeviceDetailModal_fetchDeviceSilently_settle(i, o)

Settles ==
  \E i \in 1..Len(inflight) : \E o \in Outcomes :
    AtmDevices_fetchDevices_settle(i, o) \/ SilentSettle(i, o)

SettleOldest ==
  \E o \in Outcomes : AtmDevices_fetchDevices_settle(1, o) \/ SilentSettle(1, o)

PollSucceeds == \E i \in 1..Len(inflight) : SilentSettle(i, "ok")

NextLive ==
  \/ BackendChange
  \/ Mounts
  \/ PropChanges
  \/ Ticks
  \/ Settles
  \/ NotificationTimeout

LiveSpec ==
  /\ InitLive /\ [][NextLive]_vars
  /\ WF_vars(Mounts) /\ WF_vars(Ticks) /\ WF_vars(SettleOldest) /\ SF_vars(PollSucceeds)

\* ------------------------------------------------------------ properties
\* the data a view displays
DataOf(s) ==
  CASE view \in {"AtmDevices", "AtmDevices.add", "TamperDetection"} -> s.deviceList
    [] view = "DeviceStatusList" -> s.liveDevices
    [] view = "DeviceDetailModal" -> s.liveDevice
    [] view = "Cash" -> s.cashPayments
    [] view \in {"Dashboard.vendor", "Sidebar", "Account.vendor"} -> s.vendor
    [] view = "Dashboard.devices" -> s.devices
    [] view = "Dashboard.transactions" -> s.transactions
    [] view = "Price" -> s.pricing

\* the loading flag of a view
LoadingOf(s) ==
  CASE view \in {"AtmDevices", "AtmDevices.add", "TamperDetection", "Cash", "Price"} -> s.loading
    [] view \in {"Dashboard.vendor", "Sidebar", "Account.vendor"} -> s.loadingVendor
    [] view = "Dashboard.devices" -> s.loadingDevices
    [] view = "Dashboard.transactions" -> s.loadingTransactions

\* the view shows an error message or an error notification
ErrorShown(s) ==
  CASE view \in {"AtmDevices", "AtmDevices.add", "TamperDetection"} ->
         s.notification # NULL /\ s.notification.type = "error" /\ s.notification.message # ""
    [] view = "Cash" -> s.error # NullString /\ s.error # ""
    [] view \in {"Dashboard.vendor", "Sidebar"} -> s.vendorError # ""
    [] view = "Dashboard.devices" -> s.deviceError # ""
    [] view = "Dashboard.transactions" -> s.transactionError # ""
    [] view \in {"Price", "Account.vendor"} ->
         s.feedback # NULL /\ s.feedback.type = "error" /\ s.feedback.message # ""

\* JSON.stringify of what a silent poll received
SerializedBody(body) ==
  IF view = "DeviceDetailModal" THEN StringifyDevice(body) ELSE StringifyDevices(body)

\* the setter of the displayed data of a silent-polling view
DataSetter ==
  CASE view = "AtmDevices" -> "setDeviceList"
    [] view = "DeviceStatusList" -> "setLiveDevices"
    [] view = "DeviceDetailModal" -> "setLiveDevice"

\* the step to the primed state is a silent poll settling with outcome ok
SilentSuccess ==
  last'.step = "settle" /\ last'.fn \in SilentFns /\ last'.outcome = "ok"

\* the step to the primed state is a silent poll that failed
SilentFailure ==
  last'.step = "settle" /\ last'.fn \in SilentFns /\ last'.outcome # "ok"

\* C1: a successful silent fetch whose serialization equals the last
\* committed one calls no setter and changes neither the displayed data nor
\* the ref; one whose serialization differs calls the data setter exactly
\* once with the payload and stores the serialization in the ref.
C1_SilentCommitsOnlyChanges ==
  [][SilentSuccess =>
       IF SerializedBody(last'.body) = previousDataRef
       THEN state' = state /\ previousDataRef' = previousDataRef /\ last'.calls = <<>>
       ELSE /\ DataOf(state') = last'.body
            /\ last'.calls = <<DataSetter>>
            /\ previousDataRef' = SerializedBody(last'.body)]_vars

\* a silent poll has just succeeded with the serialization already committed
C1_Witness ==
  /\ last.step = "settle" /\ last.fn \in SilentFns /\ last.outcome = "ok"
  /\ last.calls = <<>>
  /\ previousDataRef = SerializedBody(last.body)
  /\ DataOf(state) = last.body

\* C2: once the view is unmounted neither its state nor its ref is written
\* any more.
C2_NoUpdateAfterUnmount ==
  [][phase = "unmounted" => state' = state /\ previousDataRef' = previousDataRef]_vars

\* the functions that fetch in the foreground
ForegroundFns ==
  {"fetchDevices", "fetchCashPayments", "fetchVendor", "fetchTransactions", "fetchPrice"}

\* C3: a response that arrives after the response of a later request for the
\* same URL was applied is applied as well: the displayed data becomes its
\* payload.
C3_StaleResponseCommitted ==
  [][(last'.step = "settle" /\ last'.outcome = "ok" /\ last'.overtaken
        /\ last'.fn \in ForegroundFns \cup SilentFns)
       => DataOf(state') = last'.body]_vars

\* the view shows a payload older than the backend's although the response
\* of a later request, with another payload, had been applied before
C3_Witness ==
  /\ last.step = "settle" /\ last.outcome = "ok" /\ last.stale
  /\ view \in {"AtmDevices", "Dashboard.devices"}
  /\ DataOf(state) = last.body
  /\ DataOf(state) # backend.devices

\* C4: a fetch started by an interval timer leaves the loading flag as it
\* is, when it is issued and when it settles.
C4_PollingKeepsLoading ==
  [][(last'.by = "timer" /\ view \in {"AtmDevices", "TamperDetection", "Cash"})
       => LoadingOf(state') = LoadingOf(state)]_vars

\* C5: a silent fetch that fails changes nothing: no setter is called, the
\* state, the ref and the pending notification timeouts stay as they are.
C5_SilentFailureInvisible ==
  [][SilentFailure =>
       /\ state' = state
       /\ previousDataRef' = previousDataRef
       /\ timeouts' = timeouts
       /\ last'.calls = <<>>]_vars

\* a silent poll has just failed with a non-2xx status while data was shown
C5_Witness ==
  /\ last.step = "settle" /\ last.fn \in SilentFns /\ last.outcome = "http"
  /\ last.calls = <<>>
  /\ DataOf(state) # <<>>

\* what the backend would answer a poll of the view with (NULL: 404)
BackendAnswer ==
  IF view = "DeviceDetailModal"
  THEN DeviceById(backend.devices, props.device.id)
  ELSE backend.devices

\* the view displays what the backend holds
Healed == BackendAnswer = NULL \/ DataOf(state) = BackendAnswer

\* C6: a silent poll that succeeds after a silent poll has failed leaves the
\* displayed data equal to its payload; with fair ticks and polls that keep
\* succeeding the displayed data ends up equal to the backend's payload.
C6_SelfHeals ==
  /\ [][(SilentSuccess /\ last'.failedPoll) => DataOf(state') = last'.body]_vars
  /\ <>[]Healed

\* a silent poll has failed, and the next one that succeeded has just
\* brought the backend's payload on screen
C6_Witness ==
  /\ last.step = "settle" /\ last.fn \in SilentFns /\ last.outcome = "ok"
  /\ last.failedPoll
  /\ DataOf(state) = last.body
  /\ last.body = BackendAnswer

\* the views that poll on an interval timer
PollingViews == SilentViews \cup {"TamperDetection", "Cash"}

\* C7: a mounted polling view has exactly one active interval timer, also
\* after its effect has re-run; an unmounted one has none and issues no
\* request.
C7_OneTimerWhileMounted ==
  /\ [](view \in PollingViews =>
          /\ phase = "mounted" => Cardinality(intervals) = 1
          /\ phase = "unmounted" => intervals = {})
  /\ [][(view \in PollingViews /\ phase = "unmounted")
          => Len(inflight') <= Len(inflight)]_vars

\* the effect has re-run after a prop change and one timer is active
C7_Witness ==
  /\ view \in {"DeviceStatusList", "DeviceDetailModal"}
  /\ phase = "mounted" /\ propChanges > 0
  /\ intervals = {interval} /\ interval > 1

\* C8: while a foreground request of a resource is in flight the loading
\* flag of that resource is true.
C8_LoadingWhileInFlight ==
  (view \in DashboardViews \cup {"Sidebar", "Price"} /\ inflight # <<>>)
    => LoadingOf(state) = TRUE

\* the view shows no error message
ErrorCleared(s) ==
  CASE view = "Cash" -> s.error = NullString \/ s.error = ""
    [] view \in {"Dashboard.vendor", "Sidebar"} -> s.vendorError = ""
    [] view = "Dashboard.devices" -> s.deviceError = ""
    [] view = "Dashboard.transactions" -> s.transactionError = ""

\* C9: when a foreground fetch settles successfully the data is the payload
\* and no error message is shown.
C9_SuccessClearsError ==
  [][(last'.step = "settle" /\ last'.outcome = "ok"
        /\ view \in DashboardViews \cup {"Sidebar", "Cash"})
       => DataOf(state') = last'.body /\ ErrorCleared(state')]_vars

\* C10: when a foreground fetch fails with a network rejection or a non-2xx
\* status, the view shows an error and its loading flag is false.
C10_FailureShownLoadingStops ==
  [][(last'.step = "settle" /\ last'.outcome \in {"reject", "http"}
        /\ last'.fn \in ForegroundFns)
       => ErrorShown(state') /\ LoadingOf(state') = FALSE]_vars

\* a foreground fetch has just failed with a non-2xx status
C10_Witness ==
  /\ last.step = "settle" /\ last.outcome = "http" /\ last.fn \in ForegroundFns
  /\ ErrorShown(state) /\ LoadingOf(state) = FALSE

\* the view has loaded: mounted, not loading, and no error on screen
Ready(s) == phase = "mounted" /\ ~LoadingOf(s) /\ ~ErrorShown(s)

\* the views that have a loading flag and fetch at mount
LoadingViews ==
  {"AtmDevices", "TamperDetection", "Cash", "Sidebar", "Price"} \cup DashboardViews

\* C11: a view that is Ready starts loading again only through a manual
\* refresh; a timer tick never sets the loading flag of a Ready view.
C11_ReadyLeftOnlyByRefresh ==
  [][(view \in LoadingViews /\ Ready(state) /\ LoadingOf(state'))
       => last'.by = "click"]_vars

\* the number of /api/vendor requests the trigger effect has in flight
TriggerRequests(q) ==
  Cardinality({i \in 1..Len(q) : q[i].fn = "fetchVendor" /\ q[i].by = "trigger"})

\* the step to the primed state changes the prop vendorUpdatedTrigger of a
\* mounted consumer
TriggerChanged ==
  /\ view \in {"Sidebar", "Dashboard.vendor"} /\ phase = "mounted"
  /\ props'.vendorUpdatedTrigger # props.vendorUpdatedTrigger

C12_SuccessfulEditIncrementsCounter ==
  [][(view = "Account.vendor" /\ last'.fn = "handleVendorUpdate"
        /\ last'.step = "settle" /\ last'.outcome = "ok")
       => Home_vendorUpdatedTrigger' = Home_vendorUpdatedTrigger + 1]_vars

\* the number of times a step called `name`
Calls(step, name) == Cardinality({i \in 1..Len(step.calls) : step.calls[i] = name})

\* the step to the primed state is handleWithdraw
Withdraws == view = "Account.withdraw" /\ last'.fn = "handleWithdraw"

\* C14: handleWithdraw rejects an input that parses to NaN or to an amount
\* <= 0 with a message and without calling onWithdraw; it rejects an amount
\* above the balance with a message that shows the balance; for an amount in
\* (0, balance] it calls onWithdraw(amount) once, closes the form and clears
\* the input and the error.
C14_WithdrawValidation ==
  [][Withdraws =>
       LET amount == ParseInt(state.withdrawAmount)
           balance == props.account.balance
       IN CASE amount.nan \/ amount.value <= 0 ->
                 /\ state'.error = "Please enter a valid amount greater than 0"
                 /\ Calls(last', "onWithdraw") = 0 /\ props' = props
                 /\ state'.isWithdrawing /\ state'.withdrawAmount = state.withdrawAmount
            [] ~amount.nan /\ amount.value > balance ->
                 /\ state'.error = "Insufficient balance. Your current balance is KES "
                                      \o LocaleString(balance)
                 /\ Calls(last', "onWithdraw") = 0 /\ props' = props
                 /\ state'.isWithdrawing /\ state'.withdrawAmount = state.withdrawAmount
            [] OTHER ->
                 /\ Calls(last', "onWithdraw") = 1
                 /\ last'.body = [amount |-> amount.value]
                 /\ props'.account.balance = balance - amount.value
                 /\ state' = [isWithdrawing |-> FALSE, withdrawAmount |-> <<>>, error |-> ""]]_vars

\* the whole balance has just been withdrawn: the amount was equal to it
C14_Witness ==
  /\ view = "Account.withdraw" /\ last.fn = "handleWithdraw"
  /\ Calls(last, "onWithdraw") = 1
  /\ last.body = [amount |-> 70]
  /\ props.account.balance = 0
  /\ ~state.isWithdrawing /\ state.withdrawAmount = <<>> /\ state.error = ""

\* the step to the primed state is handleSetPrice up to its first return
\* or `await`
SetsPrice ==
  view = "Price" /\ last'.fn = "handleSetPrice" /\ last'.step \in {"event", "issue"}

\* C15: handleSetPrice with an input that parses to NaN or to a value <= 0
\* shows an error message, issues no request, and leaves the price, the
\* loading flag and the editing mode as they are.
C15_InvalidPriceRejected ==
  [][(SetsPrice /\ (ParseInt(state.newPrice).nan \/ ParseInt(state.newPrice).value <= 0))
       => /\ ErrorShown(state')
          /\ inflight' = inflight
          /\ backend' = backend
          /\ state'.pricing = state.pricing
          /\ state'.loading = state.loading
          /\ state'.isEditing = state.isEditing
          /\ state'.newPrice = state.newPrice]_vars

\* "-5" has just been rejected
C15_Witness ==
  /\ view = "Price" /\ last.fn = "handleSetPrice" /\ last.step = "event"
  /\ state.newPrice = <<"-", "5">>
  /\ ErrorShown(state)
  /\ state.isEditing /\ ~state.loading
  /\ inflight = <<>>

\* the step to the primed state is handleVendorUpdate, or handleAddDevice,
\* up to its first return or `await`
SavesVendor ==
  /\ view = "Account.vendor" /\ last'.fn = "handleVendorUpdate"
  /\ last'.step \in {"event", "issue"}
AddsDevice ==
  /\ view = "AtmDevices.add" /\ last'.fn = "handleAddDevice"
  /\ last'.step \in {"event", "issue"}

\* C16: a vendor edit whose name or shop name is empty after trimming, and
\* a device add whose id or name is empty after trimming, shows an error
\* message in the same step, issues no request, and leaves the vendor, the
\* device list, the backend and the open form as they are.
C16_EmptyFieldsRejected ==
  [][/\ (SavesVendor /\ (Trim(state.vendorName) = <<>> \/ Trim(state.shopName) = <<>>))
          => /\ ErrorShown(state')
             /\ inflight' = inflight /\ backend' = backend
             /\ state'.vendor = state.vendor
             /\ state'.editMode /\ state'.vendorName = state.vendorName
             /\ state'.shopName = state.shopName
     /\ (AddsDevice /\ (Trim(state.newDevice.id) = <<>> \/ Trim(state.newDevice.name) = <<>>))
          => /\ ErrorShown(state')
             /\ inflight' = inflight /\ backend' = backend
             /\ state'.deviceList = state.deviceList
             /\ state'.showAddModal /\ state'.newDevice = state.newDevice]_vars

\* a vendor edit with a name of white space only, or a device add with an
\* id but no name, has just been rejected
C16_Witness ==
  /\ last.step = "event" /\ inflight = <<>>
  /\ \/ /\ view = "Account.vendor" /\ last.fn = "handleVendorUpdate"
        /\ state.vendorName = <<" ">> /\ state.shopName # <<>> /\ state.editMode
        /\ ErrorShown(state)
     \/ /\ view = "AtmDevices.add" /\ last.fn = "handleAddDevice"
        /\ state.newDevice.id = <<"D", "3">> /\ state.newDevice.name = <<>>
        /\ state.showAddModal
        /\ ErrorShown(state)

\* the step to the primed state is handleSetPrice after the response arrived
PriceSettles == view = "Price" /\ last'.fn = "handleSetPrice" /\ last'.step = "settle"

\* C17: when the POST of a valid price p settles with a 2xx status and
\* success = true the displayed price is p, a success message is shown and
\* editing is closed; in every other outcome the price and the editing mode
\* are as before and an error message is shown; the loading flag is false
\* in all outcomes.
C17_PriceUpdateOutcome ==
  [][PriceSettles =>
       /\ ~state'.loading
       /\ IF last'.outcome = "ok"
          THEN /\ state'.pricing = [pricePerLitre |-> last'.body.pricePerLitre]
               /\ state'.feedback # NULL /\ state'.feedback.type = "success"
               /\ ~state'.isEditing
          ELSE /\ state'.pricing = state.pricing
               /\ ErrorShown(state')
               /\ state'.isEditing = state.isEditing]_vars

\* the POST of 70 was answered 2xx without success = true: the price is
\* not 70, an error is shown and the form is still open
C17_Witness ==
  /\ view = "Price" /\ last.fn = "handleSetPrice" /\ last.step = "settle"
  /\ last.outcome = "okNoSuccess"
  /\ last.body.pricePerLitre = 70
  /\ state.pricing # [pricePerLitre |-> 70]
  /\ ErrorShown(state) /\ state.isEditing /\ ~state.loading

\* C18: the band of a rendered capacity bar follows from its percentage
\* with inclusive lower boundaries, in each of the three views: >= 50 is
\* green, 25 to below 50 is yellow, below 25 is red.
C18_CapacityBands ==
  phase = "rendered" =>
    LET percent == state.capacityPercent
        color == state.capacityBarColor
    IN /\ percent >= 50 => color = "bg-green-500"
       /\ (25 <= percent /\ percent < 50) => color = "bg-yellow-400"
       /\ percent < 25 => color = "bg-red-500"

\* the list has rendered a device at exactly 25 percent in the warning band
C18_Witness ==
  /\ phase = "rendered" /\ view = "DeviceStatusList"
  /\ props.device.capacity = 25
  /\ state.capacityPercent = 25 /\ state.capacityBarColor = "bg-yellow-400"

\* C19: the Active Devices card never shows an uptime of NaN: with no
\* devices a placeholder is rendered instead.
C19_UptimeGuarded ==
  (view = "Dashboard.devices" /\ phase = "mounted")
    => Dashboard_activeDevicesChange(state) # "NaN% uptime"

\* capacityPercent as the rendering view computes it
CapacityPercentOf(v, capacityValue) ==
  CASE v = "Dashboard.devices" -> Dashboard_capacityPercent(capacityValue)
    [] v = "DeviceStatusList" -> DeviceStatusList_capacityPercent(capacityValue)
    [] v = "DeviceDetailModal" -> DeviceDetailModal_capacityPercent(capacityValue)

\* C20: the rendered capacityPercent lies in [0, 100] and is not below the
\* capacityPercent of any smaller capacity.
C20_PercentMonotonicClamped ==
  phase = "rendered" =>
    /\ 0 <= state.capacityPercent /\ state.capacityPercent <= 100
    /\ \A c \in Capacities :
         c <= props.device.capacity
           => CapacityPercentOf(view, c) <= state.capacityPercent
\* the list a view derives its values from
DerivedFrom(s) == IF view = "TamperDetection" THEN s.deviceList ELSE s.devices

\* t consists of the elements of D at the positions in P, in the order of D
SubListAt(t, D, P) ==
  /\ Len(t) = Cardinality(P)
  /\ \A k \in 1..Len(t) :
       \E i \in P : t[k] = D[i] /\ Cardinality({j \in P : j < i}) = k - 1

\* C21: for every device list D the online count is at most the length of
\* D and is the number of devices whose status is online, tampered or not;
\* the tampered list consists of exactly the devices of D with isTampered
\* true, online or not, in the order of D.
C21_DerivedDeviceStats ==
  phase = "derived" =>
    LET D == DerivedFrom(state) IN
      /\ SubListAt(state.tamperedDevices, D, {i \in 1..Len(D) : D[i].isTampered})
      /\ Len(state.tamperedDevices) <= Len(D)
      /\ view = "Dashboard.devices" =>
            /\ state.onlineDevices <= Len(D)
            /\ state.onlineDevices
                 = Cardinality({i \in 1..Len(D) : D[i].status = "online"})

\* the Dashboard has derived its values from a list whose second device is
\* online and tampered: the device is counted as online and listed as
\* tampered
C21_Witness ==
  /\ phase = "derived" /\ view = "Dashboard.devices"
  /\ Len(state.devices) = 2
  /\ state.devices[1].status = "offline" /\ ~state.devices[1].isTampered
  /\ state.devices[2].status = "online" /\ state.devices[2].isTampered
  /\ state.onlineDevices = 1
  /\ state.tamperedDevices = <<state.devices[2]>>
\* the number of foreground fetches of the device list in flight
DeviceFetches(q) == Cardinality({i \in 1..Len(q) : q[i].fn = "fetchDevices"})

\* C22: when the POST of handleAddDevice settles with a 2xx status the form
\* is reset, the add modal is closed, a success notification is shown and
\* one foreground fetch of the device list is issued (loading is set); with
\* a non-2xx status or a network error the form, the modal, the list and
\* the loading flag stay as they are, no fetch is issued, and an error
\* notification is shown.
C22_AddDeviceOutcome ==
  [][(view = "AtmDevices.add" /\ last'.fn = "handleAddDevice" /\ last'.step = "settle") =>
       IF last'.outcome = "ok"
       THEN /\ state'.newDevice = [id |-> <<>>, name |-> <<>>, status |-> "online"]
            /\ ~state'.showAddModal
            /\ state'.notification # NULL /\ state'.notification.type = "success"
            /\ DeviceFetches(inflight') = DeviceFetches(inflight) + 1
            /\ inflight'[Len(inflight')].fn = "fetchDevices"
            /\ inflight'[Len(inflight')].url = "/api/devices"
            /\ state'.loading
       ELSE /\ state'.newDevice = state.newDevice
            /\ state'.showAddModal = state.showAddModal
            /\ state'.deviceList = state.deviceList
            /\ state'.loading = state.loading
            /\ DeviceFetches(inflight') = DeviceFetches(inflight)
            /\ Len(inflight') = Len(inflight) - 1
            /\ ErrorShown(state')]_vars

\* the POST of device "D3" has just been accepted: the form is empty and
\* closed, the success notification is shown and the list is being fetched
C22_Witness ==
  /\ view = "AtmDevices.add" /\ last.fn = "handleAddDevice" /\ last.step = "settle"
  /\ last.outcome = "ok" /\ last.body.id = <<"D", "3">>
  /\ state.newDevice.id = <<>> /\ ~state.showAddModal
  /\ state.notification = Notification("success", "Device added successfully")
  /\ state.loading
  /\ inflight # <<>> /\ inflight[Len(inflight)].fn = "fetchDevices"
\* C23: selecting a navigation item sets currentPage to that item and
\* leaves sidebarOpen false, whatever sidebarOpen was before the click.
C23_NavigationClosesSidebar ==
  [][(view = "Home" /\ last'.fn = "menuItemClick")
       => state'.currentPage = last'.body.item /\ state'.sidebarOpen = FALSE]_vars
\* C24: whenever the Dashboard renders the alert modal (showAlerts is true
\* and a device is tampered) selectedDevice is not null.
C24_AlertModalHasDevice ==
  (view = "Dashboard.devices" /\ phase = "mounted" /\ Dashboard_alertModalShown(state))
    => state.selectedDevice # NULL
\* C25: the liveDevice that DeviceDetailModal displays is the device passed
\* as prop: liveDevice.id = device.id, also after the prop has changed
\* while a silent fetch was in flight.
C25_LiveDeviceIsPropDevice ==
  view = "DeviceDetailModal" => state.liveDevice.id = props.device.id
\* the sum of the amounts of a list of withdrawals
RECURSIVE SumAmounts(_)
SumAmounts(w) == IF w = <<>> THEN 0 ELSE w[1].amount + SumAmounts(Tail(w))

\* C26: the balance is never negative and the balance plus the amounts of
\* the withdrawals made is the balance the page opened with; an accepted
\* withdrawal lowers the balance by exactly its amount and puts one record
\* with that amount at the head of the withdrawals list; a rejected attempt
\* changes neither the balance nor the list.
C26_WithdrawalsConserveBalance ==
  /\ [](view = "Account.withdraw" =>
          /\ props.account.balance >= 0
          /\ props.account.balance + SumAmounts(props.account.withdrawals) \in Balances)
  /\ [][Withdraws =>
          IF Calls(last', "onWithdraw") = 1
          THEN /\ props'.account.balance = props.account.balance - last'.body.amount
               /\ Len(props'.account.withdrawals) = Len(props.account.withdrawals) + 1
               /\ Tail(props'.account.withdrawals) = props.account.withdrawals
               /\ props'.account.withdrawals[1].amount = last'.body.amount
               /\ props'.account.balance + SumAmounts(props'.account.withdrawals)
                    = props.account.balance + SumAmounts(props.account.withdrawals)
          ELSE props'.account = props.account]_vars

\* two withdrawals of 70 have been made from 1500, the later one is at the
\* head of the list
C26_Witness ==
  /\ view = "Account.withdraw" /\ last.fn = "handleWithdraw"
  /\ Calls(last, "onWithdraw") = 1
  /\ props.account.balance = 1360
  /\ Len(props.account.withdrawals) = 2
  /\ props.account.withdrawals[1].id = "WD_001"
  /\ props.account.withdrawals[2].id = "WD_000"
\* the ids of a device list are pairwise distinct
DistinctIds(deviceList) ==
  \A j, k \in 1..Len(deviceList) : deviceList[j].id = deviceList[k].id => j = k

\* C27: the ids in the local deviceList stay pairwise distinct after any
\* sequence of add attempts, ids typed with surrounding white space
\* included; an attempt with an empty field or with the id of a listed
\* device leaves deviceList and the form as they are.
C27_LocalIdsDistinct ==
  /\ [](view = "AtmDevices.local" => DistinctIds(state.deviceList))
  /\ [][(view = "AtmDevices.local" /\ last'.fn = "handleAddDevice"
           /\ (DeviceFieldsEmpty(state.newDevice)
                  \/ DeviceExists(state.deviceList, state.newDevice)))
          => state' = state]_vars
\* C28: the timeout of an earlier showNotification call does not clear the
\* notification of a later call.  The timeouts all wait 3 seconds and fire
\* in the order of the calls, so one that fires while another is pending
\* belongs to an earlier call than the notification on screen.
C28_TimeoutClearsOwnNotification ==
  [][(last'.fn = "notificationTimeout" /\ timeouts > 1)
       => state'.notification = state.notification]_vars
\* C29: when fetchPrice settles the displayed pricing changes only if the
\* request succeeded with a payload that carries pricePerLitre; a non-2xx
\* answer with an { error } body and a network error leave it as it was.
C29_FailedFetchKeepsPrice ==
  [][(view = "Price" /\ last'.fn = "fetchPrice" /\ last'.step = "settle") =>
       IF last'.outcome = "ok"
       THEN state'.pricing = last'.body
       ELSE state'.pricing = state.pricing]_vars
\* C30: in a silent-polling view, once a fetch has been committed or the
\* effect has copied the prop in, previousDataRef holds the JSON
\* serialization of the displayed data; with two instances mounted this
\* holds for each instance's own ref and data, and a commit in one
\* instance leaves the ref and the data of the other as they are.
C30_RefMatchesDisplayedData ==
  /\ []((view \in SilentViews \cup {"AtmDevices.add"} /\ previousDataRef # "")
          => previousDataRef = SerializedBody(DataOf(state)))
  /\ [](view = "DeviceStatusList.pair" =>
          \A k \in Instances :
            state[k].previousDataRef # ""
              => state[k].previousDataRef = StringifyDevices(state[k].liveDevices))
  /\ [][(view = "DeviceStatusList.pair" /\ last'.step = "settle")
          => \A k \in Instances \ {last'.by} : state'[k] = state[k]]_vars

\* instance a has committed a payload that differs from the prop while
\* instance b still shows the prop; each ref matches its own data
C30_Witness ==
  /\ view = "DeviceStatusList.pair"
  /\ last.step = "settle" /\ last.by = "a" /\ last.calls = <<"setLiveDevices">>
  /\ state["a"].liveDevices = <<D1b, D2a>>
  /\ state["a"].previousDataRef = StringifyDevices(<<D1b, D2a>>)
  /\ state["b"].mounted
  /\ state["b"].liveDevices = <<D1a, D2a>>
  /\ state["b"].previousDataRef = StringifyDevices(<<D1a, D2a>>)
====
